---------------------------- MODULE Spec2Model ----------------------------
(***************************************************************************)
(* A model of validator-inator: the ValidationRegistry (register,          *)
(* validate, getValidatorsFor) and the result predicates isValid and       *)
(* isValidationArray of src/unnamed/part_000 (the current index.ts).       *)
(*                                                                         *)
(* JavaScript values are tagged records.  Objects and arrays carry their   *)
(* own properties as a function `props` together with `keys`, the          *)
(* insertion order that for..in and Object.keys follow; an array also has  *)
(* its indexed `items` (an array may carry extra properties, such as the   *)
(* `errors` list of a ValidationArray).                                    *)
(***************************************************************************)
EXTENDS Integers, Sequences, FiniteSets, TLC

VARIABLES
    map,              \* ValidationRegistry.map: class -> rules of each field
    registered,       \* history: the register calls made so far, in order
    pc,               \* "idle", or "settled" once a validate promise settled
    model,            \* arguments of the settled validate call
    originalModel,
    validationPath,
    outcome,          \* what the validate promise settled with
    valid,            \* what isValid returned for the settled result, once called
    called,           \* the last synchronous call made: its name and arguments
    returned,         \* what that call returned
    inflight          \* the validate invocations that run between awaits, by caller

vars == <<map, registered, pc, model, originalModel, validationPath, outcome, valid,
          called, returned, inflight>>

---------------------------------------------------------------------------
(* Bounds of the model.                                                    *)

MaxRegisterCalls == 2
MaxArrayLen == 2

---------------------------------------------------------------------------
(* JavaScript values.                                                      *)

Undefined == [t |-> "undefined"]
Null == [t |-> "null"]
Str(s) == [t |-> "string", s |-> s]
Num(n) == [t |-> "number", n |-> n]
Bool(b) == [t |-> "boolean", b |-> b]
NoProps == <<>>
Obj(cls, keys, props) ==
    [t |-> "object", cls |-> cls, items |-> <<>>, keys |-> keys, props |-> props]
Arr(items) ==
    [t |-> "array", cls |-> "Array", items |-> items, keys |-> <<>>, props |-> NoProps]
EmptyObject == Obj("Object", <<>>, NoProps)
EmptyArray == Arr(<<>>)

IsObjectLike(v) == v.t \in {"object", "array"}
IsArray(v) == v.t = "array"
HasOwn(o, k) == IsObjectLike(o) /\ k \in DOMAIN o.props
Get(o, k) == IF HasOwn(o, k) THEN o.props[k] ELSE Undefined
Set(o, k, v) ==
    IF k \in DOMAIN o.props
      THEN [o EXCEPT !.props = [@ EXCEPT ![k] = v]]
      ELSE [o EXCEPT !.keys = Append(@, k), !.props = (k :> v) @@ @]
Push(a, v) == [a EXCEPT !.items = Append(@, v)]
\* the operand of `x || []`, `!x`, `if(x)`: only undefined or an object occurs there
Truthy(v) == IsObjectLike(v)
\* Array.prototype.indexOf with ===: objects are never equal to a fresh value
StrictEq(a, b) == \/ a.t \in {"undefined", "null"} /\ a.t = b.t
                  \/ a.t = "string" /\ b.t = "string" /\ a.s = b.s
                  \/ a.t = "number" /\ b.t = "number" /\ a.n = b.n
                  \/ a.t = "boolean" /\ b.t = "boolean" /\ a.b = b.b
indexOf(a, v) ==
    IF \E i \in 1..Len(a.items) : StrictEq(a.items[i], v)
      THEN (CHOOSE i \in 1..Len(a.items) :
               /\ StrictEq(a.items[i], v)
               /\ \A j \in 1..(i - 1) : ~StrictEq(a.items[j], v)) - 1
      ELSE -1
\* String.prototype.startsWith
startsWith(s, p) == Len(p) <= Len(s) /\ SubSeq(s, 1, Len(p)) = p

isPrimitive(input) ==
    input.t \in {"string", "boolean", "number", "null", "undefined", "date"}

\* a hasKey with its test of isPrimitive turned around
hasKey_inverted(input, key) == IF ~isPrimitive(input) THEN FALSE ELSE HasOwn(input, key)

\* lines 446-453
hasKey(input, key) == IF isPrimitive(input) THEN FALSE ELSE HasOwn(input, key)

---------------------------------------------------------------------------
(* Rules.  A FieldValidator sees the field's value; a model rule is a      *)
(* function of (model, ctx, originalModel).  The model rules used here are *)
(* of the forms the test files register: `(p) => cond(p) ? then : else`.   *)

FieldValidator(kind, message) ==
    [tag |-> "FieldValidator", kind |-> kind, message |-> message]
required(message) == FieldValidator("required", message)
ModelRule(cond, then, else) ==
    [tag |-> "function", cond |-> cond, then |-> then, else |-> else]
\* a list of rules given to register, as opposed to a single rule
RuleArray(rules) == [tag |-> "Array", items |-> rules]
\* an object literal: a rule mapping for register, or a partial mapping a rule returns
Record(keys, props) == Obj("Object", keys, props)

isFieldValidator(input) == input.tag = "FieldValidator"

\* the validators min(min, message) and max(max, message) give; message is null
\* when none was given
MinValidator(min, message) ==
    [tag |-> "FieldValidator", kind |-> "min", min |-> min, message |-> message]
MaxValidator(max, message) ==
    [tag |-> "FieldValidator", kind |-> "max", max |-> max, message |-> message]
\* the validator max(max, message) gives in src/src/index.ts
MaxLengthValidator(max, message) ==
    [tag |-> "FieldValidator", kind |-> "maxLength", max |-> max, message |-> message]

\* value.length: defined for strings and arrays, and for an object with that property
length(value) ==
    CASE value.t = "string" -> Num(Len(value.s))
      [] value.t = "array" -> Num(Len(value.items))
      [] value.t = "object" -> Get(value, "length")
      [] OTHER -> Undefined

\* ToNumber of the relational operators: NaN stands for a value that is no number
NaN == [t |-> "NaN"]
Digits == "0123456789"
IsDigit(c) == \E d \in 1..10 : SubSeq(Digits, d, d) = c
DigitValue(c) == (CHOOSE d \in 1..10 : SubSeq(Digits, d, d) = c) - 1
RECURSIVE trimStart(_)
trimStart(str) ==
    IF Len(str) > 0 /\ SubSeq(str, 1, 1) = " " THEN trimStart(SubSeq(str, 2, Len(str)))
    ELSE str
RECURSIVE trimEnd(_)
trimEnd(str) ==
    IF Len(str) > 0 /\ SubSeq(str, Len(str), Len(str)) = " "
      THEN trimEnd(SubSeq(str, 1, Len(str) - 1))
      ELSE str
\* the value of a non-empty string of digits read so far as `acc`, NaN at a non-digit
RECURSIVE parseDigits(_, _)
parseDigits(str, acc) ==
    IF Len(str) = 0 THEN Num(acc)
    ELSE IF ~IsDigit(SubSeq(str, 1, 1)) THEN NaN
    ELSE parseDigits(SubSeq(str, 2, Len(str)), acc * 10 + DigitValue(SubSeq(str, 1, 1)))
\* the sign applied to the digits read
withSign(negative, parsed) ==
    IF parsed = NaN \/ ~negative THEN parsed ELSE Num(0 - parsed.n)
\* a trimmed string: empty is 0, digits with an optional leading minus are their value
parseSigned(trimmed) ==
    withSign(Len(trimmed) > 1 /\ SubSeq(trimmed, 1, 1) = "-",
             parseDigits(IF Len(trimmed) > 1 /\ SubSeq(trimmed, 1, 1) = "-"
                           THEN SubSeq(trimmed, 2, Len(trimmed))
                           ELSE trimmed, 0))
StringToNumber(str) == parseSigned(trimEnd(trimStart(str)))
\* Array.prototype.join of ToPrimitive(array)
RECURSIVE join(_)
join(items) ==
    IF Len(items) = 0 THEN ""
    ELSE (CASE items[1].t = "string" -> items[1].s
            [] items[1].t = "number" -> ToString(items[1].n)
            [] items[1].t \in {"null", "undefined"} -> ""
            [] items[1].t = "boolean" -> IF items[1].b THEN "true" ELSE "false"
            [] items[1].t = "array" -> join(items[1].items)
            [] OTHER -> "[object Object]")
         \o (IF Len(items) > 1 THEN "," \o join(SubSeq(items, 2, Len(items))) ELSE "")
ToNumber(value) ==
    CASE value.t = "number" -> value
      [] value.t \in {"string", "array"} ->
            StringToNumber(IF value.t = "string" THEN value.s ELSE join(value.items))
      [] value.t = "boolean" -> IF value.b THEN Num(1) ELSE Num(0)
      [] value.t = "null" -> Num(0)
      [] OTHER -> NaN
\* a < b and a > b where b is a number: false when a is no number
lessThanNumbers(x, y) == x # NaN /\ y # NaN /\ x.n < y.n
LessThan(a, b) == lessThanNumbers(ToNumber(a), ToNumber(b))
GreaterThan(a, b) == LessThan(b, a)

\* a required that only looks for null and undefined
RequiredValidator_validate_nullOnly(v, value) ==
    IF value = Null \/ value = Undefined THEN Str(v.message) ELSE Null

\* RequiredValidator.validate
RequiredValidator_validate(v, value) ==
    IF value = Null \/ value = Undefined THEN Str(v.message)
    ELSE IF LessThan(length(value), Num(1)) THEN Str(v.message)
    ELSE Null

\* `if(this.message)`, `this.message || ...`: null and the empty string are falsy
HasMessage(v) == v.message # Null /\ v.message # Str("")

\* lines 92-102: what the block under `value.length < this.min` returns, undefined
\* when it returns nothing
MinLengthMessage(v, value) ==
    IF HasMessage(v) THEN v.message
    ELSE IF value.t = "string"
      THEN Str("must be at least " \o ToString(v.min) \o " characters")
    ELSE IF IsArray(value)
      THEN Str("must have at least " \o ToString(v.min) \o " entries")
    ELSE Undefined

\* lines 124-134: what the block under `value.length > this.max` returns
MaxLengthMessage(v, value) ==
    IF HasMessage(v) THEN v.message
    ELSE IF value.t = "string"
      THEN Str("must be fewer than " \o ToString(v.max + 1) \o " characters")
    ELSE IF IsArray(value)
      THEN Str("must be fewer than " \o ToString(v.max + 1) \o " entries")
    ELSE Undefined

\* MinValidator.validate, lines 85-110
MinValidator_validate(v, value) ==
    IF value = Null \/ value = Undefined THEN Null
    ELSE IF LessThan(length(value), Num(v.min)) /\ MinLengthMessage(v, value) # Undefined
      THEN MinLengthMessage(v, value)
    ELSE IF LessThan(value, Num(v.min))
      THEN IF HasMessage(v) THEN v.message
           ELSE Str("must be greater than " \o ToString(v.min - 1))
    ELSE Null

\* MaxValidator.validate, lines 118-142
MaxValidator_validate(v, value) ==
    IF value = Null \/ value = Undefined THEN Null
    ELSE IF GreaterThan(length(value), Num(v.max)) /\ MaxLengthMessage(v, value) # Undefined
      THEN MaxLengthMessage(v, value)
    ELSE IF GreaterThan(value, Num(v.max))
      THEN IF HasMessage(v) THEN v.message
           ELSE Str("must be less than " \o ToString(v.max + 1))
    ELSE Null

\* MaxLengthValidator.validate of src/src/index.ts, lines 113-131
MaxLengthValidator_validate(v, value) ==
    IF value = Null \/ value = Undefined THEN Null
    ELSE IF value.t = "string" /\ Len(value.s) > v.max
      THEN IF HasMessage(v) THEN v.message
           ELSE Str("must be fewer than " \o ToString(v.max) \o " characters")
    ELSE IF value.t = "number" /\ value.n < v.max
      THEN IF HasMessage(v) THEN v.message
           ELSE Str("must be less than " \o ToString(v.max))
    ELSE Null

\* v.validate(value) of a FieldValidator
FieldValidator_validate(v, value) ==
    CASE v.kind = "required" -> RequiredValidator_validate(v, value)
      [] v.kind = "min" -> MinValidator_validate(v, value)
      [] v.kind = "max" -> MaxValidator_validate(v, value)
      [] v.kind = "maxLength" -> MaxLengthValidator_validate(v, value)

\* what a rule may do besides returning a value: throw, or return a promise
Throw == [t |-> "throw"]
Promise(v) == [t |-> "promise", rejected |-> FALSE, v |-> v]
RejectedPromise == [t |-> "promise", rejected |-> TRUE, v |-> Undefined]

\* the conditions of the model rules of the test files
Holds(cond, p, original) ==
    CASE cond.c = "always" -> TRUE
      [] cond.c = "eq" -> StrictEq(Get(p, cond.field), cond.value)
      [] cond.c = "empty" ->
            LET x == Get(p, cond.field)
            IN  x = Null \/ x = Undefined \/ (IsArray(x) /\ Len(x.items) < 1)
      [] cond.c = "changed" ->
            /\ original # Undefined
            /\ StrictEq(Get(original, cond.field), cond.from)
            /\ StrictEq(Get(p, cond.field), cond.to)
Always == [c |-> "always"]
FieldEquals(field, value) == [c |-> "eq", field |-> field, value |-> value]
IsEmpty(field) == [c |-> "empty", field |-> field]
\* original !== undefined && original[field] === from && p[field] === to
ChangedFrom(field, from, to) == [c |-> "changed", field |-> field, from |-> from, to |-> to]

\* v(model, ctx, originalModel); reading a field of a null original is a TypeError
CallRule(v, p, ctx, original) ==
    IF v.cond.c = "changed" /\ original = Null THEN Throw
    ELSE IF Holds(v.cond, p, original) THEN v.then ELSE v.else

---------------------------------------------------------------------------
(* ValidationRegistry.map, getValidatorsFor and register.                  *)

NoValidators == [keys |-> <<>>, props |-> NoProps]

getValidatorsFor(m, klass) == IF klass \in DOMAIN m THEN m[klass] ELSE NoValidators

\* a register that stores the rules of the call in place of the stored ones
pushMapped_replacing(currentValidators, mapped) ==
    IF mapped.tag = "Array" THEN mapped.items ELSE << mapped >>

\* lines 185-193: a list is pushed rule by rule, a single rule is pushed
pushMapped(currentValidators, mapped) ==
    IF mapped.tag = "Array"
      THEN currentValidators \o mapped.items
      ELSE Append(currentValidators, mapped)

\* lines 183-195: one iteration of `for(const prop in map)`
registerProp(currentMap, prop, mapped) ==
    LET currentValidators ==
            IF prop \in DOMAIN currentMap.props THEN currentMap.props[prop] ELSE <<>>
        pushed == pushMapped(currentValidators, mapped)
    IN  IF prop \in DOMAIN currentMap.props
          THEN [currentMap EXCEPT !.props = [@ EXCEPT ![prop] = pushed]]
          ELSE [keys |-> Append(currentMap.keys, prop),
                props |-> (prop :> pushed) @@ currentMap.props]

RECURSIVE registerProps(_, _, _)
registerProps(currentMap, mapping, i) ==
    IF i > Len(mapping.keys) THEN currentMap
    ELSE registerProps(
            registerProp(currentMap, mapping.keys[i], mapping.props[mapping.keys[i]]),
            mapping, i + 1)

register(m, klass, mapping) ==
    (klass :> registerProps(getValidatorsFor(m, klass), mapping, 1)) @@ m

\* lines 76-78: only a RequiredValidator carries isRequiredFieldValidator
isRequiredFieldValidator(input) ==
    input.tag = "FieldValidator" /\ input.kind = "required"

\* a getRequiredFieldsFor that looks at the last rule of a field only
getRequiredFieldsFor_lastRule(m, klass) ==
    LET classValidators == getValidatorsFor(m, klass)
    IN  Record(classValidators.keys,
               [p \in DOMAIN classValidators.props |->
                   Bool(/\ Len(classValidators.props[p]) > 0
                        /\ isRequiredFieldValidator(
                              classValidators.props[p][Len(classValidators.props[p])]))])

\* lines 370-388: for each property of the class's entry, in its order, whether
\* some validator of its list is a RequiredValidator
getRequiredFieldsFor(m, klass) ==
    LET classValidators == getValidatorsFor(m, klass)
    IN  Record(classValidators.keys,
               [p \in DOMAIN classValidators.props |->
                   Bool(\E i \in 1..Len(classValidators.props[p]) :
                           isRequiredFieldValidator(classValidators.props[p][i]))])

---------------------------------------------------------------------------
(* The schema (io-ts-derive-class getType().props) of the classes of the   *)
(* test files: for each class its fields in declaration order, each with   *)
(* the `_tag` of its io-ts type.                                           *)

Prop(key, tag) == [key |-> key, tag |-> tag]

Schema ==
    [Person |-> << Prop("FirstName", "StringType"),
                   Prop("LastName", "StringType"),
                   Prop("Address", "InterfaceType"),
                   Prop("Addresses", "ArrayType"),
                   Prop("NullableAddress", "UnionType") >>,
     PersonAddress |-> << Prop("StreetAddress1", "StringType"),
                          Prop("StreetAddress2", "StringType") >>]

\* model.getType is defined: the value is an instance of a derived class
hasGetType(input) == input.t = "object" /\ input.cls \in DOMAIN Schema

isTypedRecord(input) ==
    IF isPrimitive(input) THEN FALSE
    ELSE IF IsArray(input) THEN FALSE
    ELSE hasGetType(input)

isRecord(input) ==
    IF isPrimitive(input) THEN FALSE
    ELSE IF IsArray(input) THEN FALSE
    ELSE input.t = "object" /\ Len(input.keys) > 0

\* tag && tag.length > 0 ? tag.indexOf(search) != -1 : false
tagContains(tag, search) ==
    /\ Len(tag) > 0
    /\ \E i \in 1..Len(tag) :
          i + Len(search) - 1 <= Len(tag) /\ SubSeq(tag, i, i + Len(search) - 1) = search

\* how PathReporter shows the rejected value in its message
stringify(v) ==
    CASE v.t = "string" -> "\"" \o v.s \o "\""
      [] v.t = "number" -> ToString(v.n)
      [] v.t = "boolean" -> IF v.b THEN "true" ELSE "false"
      [] v.t = "array" -> IF v.items = <<>> THEN "[]" ELSE "[...]"
      [] v.t = "object" -> "{...}"
      [] OTHER -> v.t

\* prop.decode(propValue) followed by PathReporter.report: the messages of a
\* failed decode, none when the value decodes
decode(prop, propValue) ==
    CASE prop.tag = "StringType" ->
            IF propValue.t = "string" THEN <<>>
            ELSE << Str("Invalid value " \o stringify(propValue) \o " supplied to : string") >>
      [] prop.tag = "UnionType" ->
            IF propValue = Null THEN <<>>
            ELSE << Str("Invalid value " \o stringify(propValue)
                        \o " supplied to : (PersonAddress | null)/0: PersonAddress"),
                    Str("Invalid value " \o stringify(propValue)
                        \o " supplied to : (PersonAddress | null)/1: null") >>
      [] OTHER -> <<>>

\* a scope check that lets every field through
isInValidationPath_always(currentPath, vpath) == TRUE

\* a scope check that lets only the scoped field itself through
isInValidationPath_exact(currentPath, vpath) ==
    IF vpath = Null THEN TRUE ELSE vpath.s = currentPath

\* a scope check that also lets through every field below the scoped one
isInValidationPath_below(currentPath, vpath) ==
    IF vpath = Null THEN TRUE
    ELSE startsWith(vpath.s, currentPath) \/ startsWith(currentPath, vpath.s)

\* lines 401-408
isInValidationPath(currentPath, vpath) ==
    IF vpath = Null THEN TRUE
    ELSE startsWith(vpath.s, currentPath)

\* Object.assign(target, source)
RECURSIVE assignFrom(_, _, _)
assignFrom(target, source, i) ==
    IF i > Len(source.keys) THEN target
    ELSE assignFrom(Set(target, source.keys[i], source.props[source.keys[i]]), source, i + 1)
ObjectAssign(target, source) == assignFrom(target, source, 1)

---------------------------------------------------------------------------
(* validate.  The state of one invocation is `result` (the graph built so  *)
(* far), whether an exception has been thrown, and `log`, a history of the *)
(* rule invocations and schema visits made, in order.                      *)

\* a result object kept from the call before instead of created by the call
Fresh_kept == [result |-> outcome.result, log |-> <<>>, threw |-> FALSE]

\* a result that is the tree another invocation in flight is building
Fresh_shared ==
    IF \E c \in DOMAIN inflight : inflight[c].status = "awaiting"
      THEN LET c == CHOOSE c \in DOMAIN inflight : inflight[c].status = "awaiting"
           IN  [inflight[c].stack[Len(inflight[c].stack)].st EXCEPT !.log = <<>>]
      ELSE [result |-> EmptyObject, log |-> <<>>, threw |-> FALSE]

\* line 209: const result = {}
Fresh == [result |-> EmptyObject, log |-> <<>>, threw |-> FALSE]
Thrown(st) == [st EXCEPT !.threw = TRUE]
SetResult(st, key, node) == [st EXCEPT !.result = Set(@, key, node)]
\* log entries: rule i of field `key` of the object at `path` was given `original`
\* and returned `res`; the schema field `key` of that object was visited; its
\* decoder reported `res`
RuleEvent(path, key, i, res, original) ==
    [ev |-> "rule", path |-> path, key |-> key, i |-> i, res |-> res,
     original |-> original]
SchemaEvent(path, key) ==
    [ev |-> "schema", path |-> path, key |-> key, i |-> -1, res |-> Undefined,
     original |-> Undefined]
DecodeEvent(path, key, res) ==
    [ev |-> "decode", path |-> path, key |-> key, i |-> -1, res |-> res,
     original |-> Undefined]
Logged(st, event) == [st EXCEPT !.log = Append(@, event)]

\* an add that appends without looking for the message in the list
addToList_appending(st, key, res) ==
    LET existing == Get(st.result, key)
        current == IF Truthy(existing) THEN existing ELSE EmptyArray
    IN  SetResult(st, key, IF res # Null THEN Push(current, res) ELSE current)

\* an add that leaves the result alone when the rule reports null
addToList_skippingNull(st, key, res) ==
    LET existing == Get(st.result, key)
        current == IF Truthy(existing) THEN existing ELSE EmptyArray
    IN  IF res = Null THEN st
        ELSE IF ~IsArray(current) THEN Thrown(st)
        ELSE IF indexOf(current, res) = -1
          THEN SetResult(st, key, Push(current, res))
          ELSE SetResult(st, key, current)

\* lines 232-237: the plain list of a field
addToList(st, key, res) ==
    LET existing == Get(st.result, key)
        current == IF Truthy(existing) THEN existing ELSE EmptyArray
    IN  IF res # Null
          THEN IF ~IsArray(current) THEN Thrown(st)
               ELSE IF indexOf(current, res) = -1
                      THEN SetResult(st, key, Push(current, res))
                      ELSE SetResult(st, key, current)
          ELSE SetResult(st, key, current)

\* lines 244-264
innerAdd(st, key, res) ==
    LET existing == Get(st.result, key)
        current0 == IF Truthy(existing) THEN existing ELSE EmptyArray
        current == IF ~Truthy(Get(current0, "errors"))
                     THEN Set(current0, "errors", EmptyArray)
                     ELSE current0
        st1 == SetResult(st, key, current)
    IN  IF res = Null THEN st1
        ELSE IF res.t # "string" THEN Thrown(st1)
        ELSE IF indexOf(Get(current, "errors"), res) = -1
               THEN SetResult(st, key,
                              Set(current, "errors", Push(Get(current, "errors"), res)))
               ELSE st1

RECURSIVE add(_, _, _, _)
RECURSIVE addToArray(_, _, _, _)
RECURSIVE addKeys(_, _, _, _)
RECURSIVE addToArrayKeys(_, _, _, _, _)

\* an add that files every message of a partial mapping under the rule's own field
add_underOwnField(m, st, key, res) ==
    IF st.threw THEN st
    ELSE IF IsArray(Get(m, key)) THEN addToArray(m, st, key, res)
    ELSE IF isRecord(res) THEN addToList(st, key, res.props[res.keys[1]])
    ELSE addToList(st, key, res)

\* lines 217-238
add(m, st, key, res) ==
    IF st.threw THEN st
    ELSE IF IsArray(Get(m, key)) THEN addToArray(m, st, key, res)
    ELSE IF isRecord(res) THEN addKeys(m, st, res, 1)
    ELSE addToList(st, key, res)

\* lines 226-228: for(var k in r) add(k, r[k])
addKeys(m, st, r, i) ==
    IF i > Len(r.keys) \/ st.threw THEN st
    ELSE addKeys(m, add(m, st, r.keys[i], r.props[r.keys[i]]), r, i + 1)

\* an addToArray that pushes a message onto the array node itself
addToArray_asElement(m, st, key, res) ==
    IF st.threw THEN st
    ELSE IF res = Null THEN st
    ELSE IF res.t = "string" THEN addToList(innerAdd(st, key, Null), key, res)
    ELSE IF isRecord(res) THEN addToArrayKeys(m, st, key, res, 1)
    ELSE st

\* lines 240-288
addToArray(m, st, key, res) ==
    IF st.threw THEN st
    ELSE IF res = Null THEN st
    ELSE IF res.t = "string" THEN innerAdd(st, key, res)
    ELSE IF isRecord(res) THEN addToArrayKeys(m, st, key, res, 1)
    ELSE st

\* an addToArray that, reaching the rule's own key in a mapping, pushes the mapping
\* itself into the `errors` of the array node
addToArrayKeys_pushingMapping(m, st, key, r, i) ==
    IF i > Len(r.keys) \/ st.threw THEN st
    ELSE LET k == r.keys[i]
             node == Get(innerAdd(st, k, Null).result, k)
         IN  IF k = key
               THEN SetResult(st, k, Set(node, "errors", Push(Get(node, "errors"), r)))
             ELSE IF IsArray(Get(m, k))
               THEN addToArrayKeys(m, addToArray(m, st, k, r.props[k]), key, r, i + 1)
             ELSE addToArrayKeys(m, add(m, st, k, r.props[k]), key, r, i + 1)

\* lines 273-285
addToArrayKeys(m, st, key, r, i) ==
    IF i > Len(r.keys) \/ st.threw THEN st
    ELSE LET k == r.keys[i]
         IN  IF IsArray(Get(m, k))
               THEN addToArrayKeys(m, addToArray(m, st, k, r.props[k]), key, r, i + 1)
             ELSE IF k = key
               THEN innerAdd(st, k, r.props[k])
             ELSE addToArrayKeys(m, add(m, st, k, r.props[k]), key, r, i + 1)

\* line 301, and the await of lines 302-304: the value the rule gave, or Throw
\* when the rule threw or its promise rejected
invoke(v, m, propValue, ctx, original) ==
    LET res == IF isFieldValidator(v)
                 THEN FieldValidator_validate(v, propValue)
                 ELSE CallRule(v, m, ctx, original)
    IN  IF res.t = "promise"
          THEN IF res.rejected THEN Throw ELSE res.v
          ELSE res

\* lines 299-307
RECURSIVE runValidators(_, _, _, _, _, _, _, _)
runValidators(m, ctx, original, path, key, propValidators, i, st) ==
    IF i > Len(propValidators) \/ st.threw THEN st
    ELSE LET res == invoke(propValidators[i], m, Get(m, key), ctx, original)
             st1 == Logged(st, RuleEvent(path, key, i - 1, res, original))
         IN  IF res = Throw THEN Thrown(st1)
             ELSE runValidators(m, ctx, original, path, key, propValidators, i + 1,
                                add(m, st1, key, res))

\* lines 292-308
RECURSIVE ruleLoop(_, _, _, _, _, _, _, _)
ruleLoop(m, ctx, original, vpath, path, validators, n, st) ==
    IF n > Len(validators.keys) \/ st.threw THEN st
    ELSE LET key == validators.keys[n]
         IN  IF ~isInValidationPath(path \o key, vpath)
               THEN ruleLoop(m, ctx, original, vpath, path, validators, n + 1, st)
               ELSE ruleLoop(m, ctx, original, vpath, path, validators, n + 1,
                             runValidators(m, ctx, original, path, key,
                                           validators.props[key], 1, st))

\* lines 331-338: the result of the recursion into a nested object is attached
attachNested(st, key, innerResult) ==
    LET current == Get(st.result, key)
    IN  IF Truthy(current)
          THEN IF Len(innerResult.keys) > 0
                 THEN SetResult(st, key, ObjectAssign(current, innerResult))
                 ELSE st
          ELSE SetResult(st, key, innerResult)

\* a schema loop that leaves an array node without `errors` as it is
finishArray_withoutErrors(st, key, arrayRes) == SetResult(st, key, arrayRes)

\* lines 350-353
finishArray(st, key, arrayRes) ==
    SetResult(st, key,
              IF ~Truthy(Get(arrayRes, "errors"))
                THEN Set(arrayRes, "errors", EmptyArray)
                ELSE arrayRes)

\* propValue.length and propValue[k] of line 343-344
HasLength(v) == v.t \in {"array", "string"}
LengthOf(v) == IF v.t = "array" THEN Len(v.items) ELSE IF v.t = "string" THEN Len(v.s) ELSE 0
ItemAt(v, k) == IF v.t = "array" THEN v.items[k + 1] ELSE Str(SubSeq(v.s, k + 1, k + 1))

\* a schema loop that drops what the decoder reports
addReported_dropped(m, st, path, key, reported, i) == st

\* line 362: PathReporter.report(decodeResult).forEach((o) => add(key, o))
RECURSIVE addReported(_, _, _, _, _, _)
addReported(m, st, path, key, reported, i) ==
    IF i > Len(reported) \/ st.threw THEN st
    ELSE addReported(m, add(m, Logged(st, DecodeEvent(path, key, reported[i])),
                            key, reported[i]),
                     path, key, reported, i + 1)

RECURSIVE validate(_, _, _, _, _, _)
RECURSIVE schemaLoop(_, _, _, _, _, _, _, _, _)
RECURSIVE arrayLoop(_, _, _, _, _, _, _, _, _, _)

\* lines 343-348: st.result[key] holds arrayRes while the loop runs; line 345
\* reads originalValue.length, a TypeError when originalValue is null
arrayLoop(reg, ctx, propValue, originalValue, vpath, path, key, k, arrayRes, st) ==
    IF k >= LengthOf(propValue) \/ st.threw THEN [st |-> st, arrayRes |-> arrayRes]
    ELSE IF originalValue = Null THEN [st |-> Thrown(st), arrayRes |-> arrayRes]
    ELSE LET originalItem ==
                 IF originalValue # Undefined /\ HasLength(originalValue)
                    /\ LengthOf(originalValue) > k
                   THEN ItemAt(originalValue, k)
                   ELSE Undefined
             inner == validate(reg, ItemAt(propValue, k), ctx, originalItem, vpath,
                               path \o key \o "[" \o ToString(k) \o "]" \o ".")
             st1 == [st EXCEPT !.log = @ \o inner.log, !.threw = inner.threw]
         IN  IF inner.threw \/ ~IsArray(arrayRes)
               THEN [st |-> Thrown(st1), arrayRes |-> arrayRes]
               ELSE arrayLoop(reg, ctx, propValue, originalValue, vpath, path, key, k + 1,
                              Push(arrayRes, inner.result), st1)

\* lines 321-364: one in-scope field of the schema
schemaField(reg, m, ctx, original, vpath, path, prop, st0) ==
    LET key == prop.key
        st == Logged(st0, SchemaEvent(path, key))
        propValue == Get(m, key)
        originalValue == IF hasKey(original, key) THEN Get(original, key) ELSE Undefined
        current == Get(st.result, key)
    IN  IF prop.tag = "InterfaceType" \/ isTypedRecord(propValue)
          THEN LET inner == validate(reg, propValue, ctx, originalValue, vpath,
                                     path \o key \o ".")
                   st1 == [st EXCEPT !.log = @ \o inner.log]
               IN  IF inner.threw THEN Thrown(st1)
                   ELSE attachNested(st1, key, inner.result)
        ELSE IF tagContains(prop.tag, "ArrayType")
          THEN IF propValue = Null \/ propValue = Undefined
                 THEN Thrown(st)
                 ELSE LET looped == arrayLoop(reg, ctx, propValue, originalValue, vpath,
                                              path, key, 0,
                                              IF Truthy(current) THEN current ELSE EmptyArray,
                                              st)
                      IN  IF looped.st.threw THEN looped.st
                          ELSE finishArray(looped.st, key, looped.arrayRes)
        ELSE addReported(m, IF ~Truthy(current) THEN SetResult(st, key, EmptyArray) ELSE st,
                         path, key, decode(prop, propValue), 1)

\* lines 316-365
schemaLoop(reg, m, ctx, original, vpath, path, props, i, st) ==
    IF i > Len(props) \/ st.threw THEN st
    ELSE IF ~isInValidationPath(path \o props[i].key, vpath)
      THEN schemaLoop(reg, m, ctx, original, vpath, path, props, i + 1, st)
      ELSE schemaLoop(reg, m, ctx, original, vpath, path, props, i + 1,
                      schemaField(reg, m, ctx, original, vpath, path, props[i], st))

\* lines 201-368.  `threw` stands for the rejection of the returned promise.
validate(reg, m, ctx, original, vpath, path) ==
    IF isPrimitive(m) THEN Fresh
    ELSE LET target == m.cls
             ruled == ruleLoop(m, ctx, original, vpath, path,
                               getValidatorsFor(reg, target), 1, Fresh)
         IN  IF ruled.threw THEN ruled
             ELSE IF ~hasGetType(m) THEN ruled
             ELSE schemaLoop(reg, m, ctx, original, vpath, path, Schema[m.cls], 1, ruled)

isValidationArray(input) == IsArray(input) /\ IsArray(Get(input, "errors"))

\* lines 410-444.  The graph is a result object; the entries of a
\* ValidationArray are result objects.
RECURSIVE isValid(_)

\* an isValid that does not look into the elements of an array node
isValid_skippingElements(result) ==
    \A p \in DOMAIN result.props :
        LET prop == result.props[p]
        IN  IF IsArray(prop)
              THEN IF isValidationArray(prop)
                     THEN ~(Len(Get(prop, "errors").items) > 0)
                     ELSE ~(Len(prop.items) > 0)
              ELSE IF Len(prop.keys) > 0 THEN isValid(prop) ELSE TRUE

isValid(result) ==
    \A p \in DOMAIN result.props :
        LET prop == result.props[p]
        IN  IF IsArray(prop)
              THEN IF isValidationArray(prop)
                     THEN /\ ~(Len(Get(prop, "errors").items) > 0)
                          /\ \A i \in 1..Len(prop.items) : isValid(prop.items[i])
                     ELSE ~(Len(prop.items) > 0)
              ELSE IF Len(prop.keys) > 0 THEN isValid(prop) ELSE TRUE

---------------------------------------------------------------------------
(* validate between its awaits.  An invocation runs until it awaits a rule's *)
(* promise (lines 302-304) or the promise of a recursive validate (lines     *)
(* 329 and 346), and is resumed later; other code runs in between.  An       *)
(* activation of validate is a frame: its arguments, the registry entry it   *)
(* read at line 290, its place in the loops and its locals.                  *)

\* the element of a set of one element: { e(x) : x \in {v} } names the value v
\* as x in e
TheOne(S) == CHOOSE x \in S : TRUE

\* line 301: what the rule returns, before any await
callValidator(v, m, propValue, ctx, original) ==
    IF isFieldValidator(v)
      THEN FieldValidator_validate(v, propValue)
      ELSE CallRule(v, m, ctx, original)

\* lines 302-304: what `await res` gives, Throw when the promise rejected
awaitResult(res) ==
    IF res.t = "promise" THEN IF res.rejected THEN Throw ELSE res.v ELSE res

\* lines 201-215 and 290: a call of validate
NewFrame(reg, m, original, path) ==
    [m |-> m, original |-> original, path |-> path,
     validators |-> IF isPrimitive(m) THEN NoValidators ELSE getValidatorsFor(reg, m.cls),
     at |-> IF isPrimitive(m) THEN "return" ELSE "rules",
     n |-> 1, i |-> 1, j |-> 1, k |-> 0,
     st |-> Fresh, arrayRes |-> EmptyArray, awaited |-> Undefined]

Top(inv) == inv.stack[Len(inv.stack)]
WithTop(inv, frame) == [inv EXCEPT !.stack = [@ EXCEPT ![Len(@)] = frame]]
PushFrame(inv, frame) == [inv EXCEPT !.stack = Append(@, frame)]
\* the order of what the invocation does: a rule called, its result merged, a
\* schema field entered
Traced(inv, ev, path, key, i) ==
    [inv EXCEPT !.trace = Append(@, [ev |-> ev, path |-> path, key |-> key, i |-> i])]

\* a merge that also writes the field's list into the model
merged_writingModel(inv, f, res) ==
    LET key == f.validators.keys[f.n]
        st1 == Logged(f.st, RuleEvent(f.path, key, f.i - 1, res, f.original))
        st2 == IF res = Throw THEN Thrown(st1) ELSE add(f.m, st1, key, res)
    IN  Traced(WithTop(inv, [f EXCEPT !.st = st2,
                                      !.m = IF res = Throw \/ res = Null THEN @
                                             ELSE Set(@, key, Get(st2.result, key)),
                                      !.i = @ + 1,
                                      !.awaited = Undefined]),
               "merge", f.path, key, f.i - 1)

\* line 306: add(key, res) with the settled result of rule i of the field; a rule
\* that threw or rejected ends the invocation
merged(inv, f, res) ==
    LET key == f.validators.keys[f.n]
        st1 == Logged(f.st, RuleEvent(f.path, key, f.i - 1, res, f.original))
    IN  Traced(WithTop(inv, [f EXCEPT !.st = IF res = Throw THEN Thrown(st1)
                                               ELSE add(f.m, st1, key, res),
                                      !.i = @ + 1,
                                      !.awaited = Undefined]),
               "merge", f.path, key, f.i - 1)

\* a rule loop that does not wait for a promise: it goes on with the next rule
\* and the promise's value is never merged
rulesStep_notAwaiting(inv, f) ==
    IF f.n > Len(f.validators.keys)
      THEN WithTop(inv, [f EXCEPT !.at = IF hasGetType(f.m) THEN "schema" ELSE "return"])
    ELSE IF \/ ~isInValidationPath(f.path \o f.validators.keys[f.n], inv.vpath)
            \/ f.i > Len(f.validators.props[f.validators.keys[f.n]])
      THEN WithTop(inv, [f EXCEPT !.n = @ + 1, !.i = 1])
    ELSE LET key == f.validators.keys[f.n]
             res == callValidator(f.validators.props[key][f.i], f.m, Get(f.m, key),
                                  inv.ctx, f.original)
             invoked == Traced(inv, "invoke", f.path, key, f.i - 1)
         IN  IF res.t = "promise"
               THEN WithTop(invoked, [f EXCEPT !.i = @ + 1])
               ELSE merged(invoked, f, res)

\* lines 292-308, up to the next await
rulesStep(inv, f) ==
    IF f.n > Len(f.validators.keys)
      THEN WithTop(inv, [f EXCEPT !.at = IF hasGetType(f.m) THEN "schema" ELSE "return"])
    ELSE IF \/ ~isInValidationPath(f.path \o f.validators.keys[f.n], inv.vpath)
            \/ f.i > Len(f.validators.props[f.validators.keys[f.n]])
      THEN WithTop(inv, [f EXCEPT !.n = @ + 1, !.i = 1])
    ELSE LET key == f.validators.keys[f.n]
             invoked == Traced(inv, "invoke", f.path, key, f.i - 1)
         IN  TheOne({ IF res.t = "promise"
                        THEN [WithTop(invoked, [f EXCEPT !.awaited = res])
                                EXCEPT !.status = "awaiting"]
                        ELSE merged(invoked, f, res) :
                      res \in { callValidator(f.validators.props[key][f.i], f.m,
                                              Get(f.m, key), inv.ctx, f.original) } })

\* lines 316-364: the start of one field of the schema
schemaStep(inv, reg, f) ==
    IF f.j > Len(Schema[f.m.cls]) THEN WithTop(inv, [f EXCEPT !.at = "return"])
    ELSE IF ~isInValidationPath(f.path \o Schema[f.m.cls][f.j].key, inv.vpath)
      THEN WithTop(inv, [f EXCEPT !.j = @ + 1])
    ELSE LET prop == Schema[f.m.cls][f.j]
             key == prop.key
             st == Logged(f.st, SchemaEvent(f.path, key))
             propValue == Get(f.m, key)
             originalValue ==
                 IF hasKey(f.original, key) THEN Get(f.original, key) ELSE Undefined
             current == Get(st.result, key)
             entered == Traced(inv, "schema", f.path, key, -1)
         IN  IF prop.tag = "InterfaceType" \/ isTypedRecord(propValue)
               THEN PushFrame(WithTop(entered, [f EXCEPT !.st = st, !.at = "nested"]),
                              NewFrame(reg, propValue, originalValue,
                                       f.path \o key \o "."))
             ELSE IF tagContains(prop.tag, "ArrayType")
               THEN IF propValue = Null \/ propValue = Undefined
                      THEN WithTop(entered, [f EXCEPT !.st = Thrown(st)])
                      ELSE WithTop(entered,
                                   [f EXCEPT !.st = st, !.at = "array", !.k = 0,
                                             !.arrayRes = IF Truthy(current) THEN current
                                                          ELSE EmptyArray])
             ELSE WithTop(entered,
                          [f EXCEPT !.st = addReported(f.m,
                                               IF ~Truthy(current)
                                                 THEN SetResult(st, key, EmptyArray)
                                                 ELSE st,
                                               f.path, key, decode(prop, propValue), 1),
                                    !.j = @ + 1])

\* lines 343-353: the loop over the elements, up to the call for the next element
arrayStep(inv, reg, f) ==
    LET key == Schema[f.m.cls][f.j].key
        propValue == Get(f.m, key)
        originalValue == IF hasKey(f.original, key) THEN Get(f.original, key) ELSE Undefined
    IN  IF f.k >= LengthOf(propValue)
          THEN WithTop(inv, [f EXCEPT !.st = finishArray(f.st, key, f.arrayRes),
                                      !.j = @ + 1, !.at = "schema"])
        ELSE IF originalValue = Null THEN WithTop(inv, [f EXCEPT !.st = Thrown(f.st)])
        ELSE PushFrame(WithTop(inv, [f EXCEPT !.at = "element"]),
                       NewFrame(reg, ItemAt(propValue, f.k),
                                IF originalValue # Undefined /\ HasLength(originalValue)
                                   /\ LengthOf(originalValue) > f.k
                                  THEN ItemAt(originalValue, f.k)
                                  ELSE Undefined,
                                f.path \o key \o "[" \o ToString(f.k) \o "]" \o "."))

\* `return result`: the promise of the activation resolves; the caller, if any,
\* is awaiting it
returnStep(inv, f) ==
    IF Len(inv.stack) = 1
      THEN [inv EXCEPT !.status = "resolved", !.stack = <<>>, !.outcome = f.st]
      ELSE [inv EXCEPT !.status = "awaiting",
                       !.stack = [SubSeq(@, 1, Len(@) - 1)
                                     EXCEPT ![Len(@) - 1].awaited = f.st]]

\* the invocation goes on after its await: with the value of the rule's promise
\* (line 306), the result of the nested object (lines 331-338) or the result of
\* the array element (line 347)
resumeStep(inv, f) ==
    CASE f.at = "rules" -> merged(inv, f, awaitResult(f.awaited))
      [] f.at = "nested" ->
            WithTop(inv, [f EXCEPT !.st = attachNested([f.st EXCEPT !.log = @ \o f.awaited.log],
                                                       Schema[f.m.cls][f.j].key,
                                                       f.awaited.result),
                                   !.j = @ + 1, !.at = "schema", !.awaited = Undefined])
      [] f.at = "element" ->
            IF ~IsArray(f.arrayRes)
              THEN WithTop(inv, [f EXCEPT !.st = Thrown([f.st EXCEPT !.log = @ \o f.awaited.log])])
              ELSE WithTop(inv, [f EXCEPT !.st = [f.st EXCEPT !.log = @ \o f.awaited.log],
                                          !.arrayRes = Push(@, f.awaited.result),
                                          !.k = @ + 1, !.at = "array",
                                          !.awaited = Undefined])

\* one step of the running invocation; an exception rejects its promise
microStep(inv, reg) ==
    LET f == Top(inv)
    IN  IF f.st.threw
          THEN [inv EXCEPT !.status = "rejected", !.stack = <<>>, !.outcome = Thrown(Fresh)]
        ELSE CASE f.at = "rules" -> rulesStep(inv, f)
               [] f.at = "schema" -> schemaStep(inv, reg, f)
               [] f.at = "array" -> arrayStep(inv, reg, f)
               [] f.at = "return" -> returnStep(inv, f)

\* the invocation runs until it awaits or settles
RECURSIVE runToAwait(_, _)
runToAwait(inv, reg) ==
    TheOne({ IF now.status # "running" THEN now ELSE runToAwait(microStep(now, reg), reg) :
             now \in {inv} })

\* registry.validate(m, ctx, original, vpath): the call runs up to its first await
startValidate(reg, m, ctx, original, vpath) ==
    runToAwait([status |-> "running", m |-> m, ctx |-> ctx, original |-> original,
                vpath |-> vpath, stack |-> << NewFrame(reg, m, original, ".") >>,
                trace |-> <<>>, outcome |-> Fresh],
               reg)

\* a continuation that is never run: the invocation stays suspended at its await
resumeValidate_stalled(inv, reg) == inv

\* the awaited promise has settled: the invocation runs up to its next await
resumeValidate(inv, reg) ==
    runToAwait([resumeStep(inv, Top(inv)) EXCEPT !.status = "running"], reg)

---------------------------------------------------------------------------
(* The inputs: the register calls and the models of the test files.        *)

Ctx == Record(<<"isTest">>, [isTest |-> Bool(TRUE)])

MsgFirstName == "FirstName is required"
MsgAddresses == "Must have at least one address"

\* (p) => p.FirstName === "" ? { LastName: "Separate field error",
\*                               Addresses: "Must have at least one address" } : null
SeparateFields ==
    ModelRule(FieldEquals("FirstName", Str("")),
              Record(<<"LastName", "Addresses">>,
                     [LastName |-> Str("Separate field error"),
                      Addresses |-> Str(MsgAddresses)]),
              Null)
\* (p) => p.Addresses == null || p.Addresses.length < 1 ? "Must have ..." : null
AtLeastOneAddress == ModelRule(IsEmpty("Addresses"), Str(MsgAddresses), Null)
\* (p) => p.FirstName === "" ? "Addresses need a FirstName" : null
AddressesNeedName ==
    ModelRule(FieldEquals("FirstName", Str("")), Str("Addresses need a FirstName"), Null)
\* (p) => { return { FirstName: p.FirstName === "" ? "FirstName is required" : null } }
SeparateNullableField ==
    ModelRule(FieldEquals("FirstName", Str("")),
              Record(<<"FirstName">>, [FirstName |-> Str(MsgFirstName)]),
              Record(<<"FirstName">>, [FirstName |-> Null]))
\* (p) => p.FirstName === "" ? "Address needs a FirstName" : null
AddressNeedsName ==
    ModelRule(FieldEquals("FirstName", Str("")), Str("Address needs a FirstName"), Null)

RegisterCall(klass, mapping) == [klass |-> klass, mapping |-> mapping]

RegisterCalls ==
    { RegisterCall("PersonAddress",
          Record(<<"StreetAddress1", "StreetAddress2">>,
                 [StreetAddress1 |-> required("StreetAddress1 is required"),
                  StreetAddress2 |-> required("StreetAddress2 is required")])),
      RegisterCall("Person",
          Record(<<"FirstName">>,
                 [FirstName |-> RuleArray(<< required(MsgFirstName), SeparateFields >>)])),
      RegisterCall("Person",
          Record(<<"Addresses">>,
                 [Addresses |-> RuleArray(<< AtLeastOneAddress, AddressesNeedName >>)])),
      RegisterCall("Person",
          Record(<<"NullableAddress", "FirstName">>,
                 [NullableAddress |-> SeparateNullableField,
                  FirstName |-> required(MsgFirstName)])),
      RegisterCall("Person",
          Record(<<"Address">>, [Address |-> AddressNeedsName])) }

PersonAddress(s1, s2) ==
    Obj("PersonAddress", <<"StreetAddress1", "StreetAddress2">>,
        [StreetAddress1 |-> Str(s1), StreetAddress2 |-> Str(s2)])

Person(firstName, address, addresses, nullableAddress) ==
    Obj("Person", <<"FirstName", "LastName", "Address", "Addresses", "NullableAddress">>,
        [FirstName |-> Str(firstName), LastName |-> Str("TestLast"), Address |-> address,
         Addresses |-> Arr(addresses), NullableAddress |-> nullableAddress])

AddressValues == { PersonAddress("", "Test"), PersonAddress("Test", "Test") }

SeqsUpTo(S, n) == UNION { [1..k -> S] : k \in 0..n }

Models ==
    { Person(f, a, as, n) :
        f \in {"", "Test"}, a \in AddressValues,
        as \in SeqsUpTo(AddressValues, MaxArrayLen),
        n \in {Null, PersonAddress("", "Test")} }

ValidationPaths ==
    { Null, Str(".FirstName"), Str(".Address.StreetAddress2"),
      Str(".Addresses[0].StreetAddress1"), Str(".NullableAddress.StreetAddress1") }

---------------------------------------------------------------------------
(* The state machine.                                                      *)

\* no validate call has settled; no synchronous call has been made
NoOutcome == [result |-> EmptyObject, log |-> <<>>, threw |-> FALSE]
NoCall == [op |-> "none"]
\* the callers that may have a validate invocation in flight, and none in flight
Callers == {"first", "second"}
NotCalled == [status |-> "idle"]
NoneInFlight == [c \in Callers |-> NotCalled]

Init ==
    /\ map = <<>>
    /\ registered = <<>>
    /\ pc = "idle"
    /\ model = Undefined
    /\ originalModel = Undefined
    /\ validationPath = Null
    /\ outcome = NoOutcome
    /\ valid = Undefined
    /\ called = NoCall
    /\ returned = Undefined
    /\ inflight = NoneInFlight

\* registry.register(klass, mapping)
Register(call) ==
    /\ pc = "idle"
    /\ Len(registered) < MaxRegisterCalls
    /\ map' = register(map, call.klass, call.mapping)
    /\ registered' = Append(registered, call)
    /\ UNCHANGED <<pc, model, originalModel, validationPath, outcome, valid,
                    called, returned, inflight>>

\* registry.validate(m, Ctx, original, vpath), up to the settling of its promise
Validate(m, original, vpath) ==
    /\ pc = "idle"
    /\ pc' = "settled"
    /\ model' = m
    /\ originalModel' = original
    /\ validationPath' = vpath
    /\ outcome' = validate(map, m, Ctx, original, vpath, ".")
    /\ UNCHANGED <<map, registered, valid, called, returned, inflight>>

\* the caller has taken the result
Return ==
    /\ pc = "settled"
    /\ pc' = "idle"
    /\ model' = Undefined
    /\ originalModel' = Undefined
    /\ validationPath' = Null
    /\ outcome' = NoOutcome
    /\ valid' = Undefined
    /\ UNCHANGED <<map, registered, called, returned, inflight>>

\* registry.validate called a second time with the arguments of the settled call
Revalidate ==
    /\ pc = "settled"
    /\ pc' = "resettled"
    /\ outcome' = validate(map, model, Ctx, originalModel, validationPath, ".")
    /\ UNCHANGED <<map, registered, model, originalModel, validationPath, valid,
                    called, returned, inflight>>

\* the caller has taken the result of the second call
ReturnAgain ==
    /\ pc = "resettled"
    /\ pc' = "idle"
    /\ model' = Undefined
    /\ originalModel' = Undefined
    /\ validationPath' = Null
    /\ outcome' = NoOutcome
    /\ valid' = Undefined
    /\ UNCHANGED <<map, registered, called, returned, inflight>>

\* isValid(result) on the result validate resolved with
IsValid ==
    /\ pc = "settled"
    /\ ~outcome.threw
    /\ valid = Undefined
    /\ valid' = Bool(isValid(outcome.result))
    /\ UNCHANGED <<map, registered, pc, model, originalModel, validationPath, outcome,
                    called, returned, inflight>>

Next ==
    \/ \E call \in RegisterCalls : Register(call)
    \/ \E m \in Models, vpath \in ValidationPaths : Validate(m, Undefined, vpath)
    \/ IsValid
    \/ Return

Spec == Init /\ [][Next]_vars

---------------------------------------------------------------------------
(* What the claims speak about.                                            *)

Classes == {"Person", "PersonAddress"}
FieldNames == UNION { { Schema[c][i].key : i \in 1..Len(Schema[c]) } : c \in Classes }

\* validate has resolved with a result graph
Resolved == pc = "settled" /\ ~outcome.threw

\* the rule list the registry holds for a class and a field, empty when it holds none
StoredFor(klass, field) ==
    IF klass \in DOMAIN map /\ field \in DOMAIN map[klass].props
      THEN map[klass].props[field]
      ELSE <<>>

\* the rules one register call gives for a field: a single rule is a one-element list
RulesGiven(call, klass, field) ==
    IF call.klass = klass /\ field \in DOMAIN call.mapping.props
      THEN IF call.mapping.props[field].tag = "Array"
             THEN call.mapping.props[field].items
             ELSE << call.mapping.props[field] >>
      ELSE <<>>

\* the concatenation, in call order, of the rules the first n calls gave for a field
RECURSIVE GivenFor(_, _, _)
GivenFor(klass, field, n) ==
    IF n = 0 THEN <<>>
    ELSE GivenFor(klass, field, n - 1) \o RulesGiven(registered[n], klass, field)

NamedBy(klass, field) ==
    \E n \in 1..Len(registered) :
        registered[n].klass = klass /\ field \in DOMAIN registered[n].mapping.props

---------------------------------------------------------------------------
(* C1: after any sequence of register calls, the list stored for a class   *)
(* and a field is the concatenation, in call order, of the rules each call *)
(* gave for them (a single rule counting as a one-element list); the       *)
(* registry has an entry for exactly the classes and fields some call      *)
(* named, so no call removes, replaces or reorders what is stored or       *)
(* touches another class or an unnamed field.                              *)
C1_RegisterAppends ==
    /\ DOMAIN map = { registered[n].klass : n \in 1..Len(registered) }
    /\ \A klass \in Classes, field \in FieldNames :
          /\ StoredFor(klass, field) = GivenFor(klass, field, Len(registered))
          /\ (klass \in DOMAIN map /\ field \in DOMAIN map[klass].props)
                <=> NamedBy(klass, field)

\* two calls gave rules for Person.FirstName, one a list and one a single rule
C1_Witness ==
    /\ Len(registered) = 2
    /\ Len(RulesGiven(registered[1], "Person", "FirstName")) = 2
    /\ Len(RulesGiven(registered[2], "Person", "FirstName")) = 1
    /\ registered[2].mapping.props["FirstName"].tag # "Array"
    /\ Len(StoredFor("Person", "FirstName")) = 3

---------------------------------------------------------------------------
(* Reading the settled call: the objects validate recursed into, and the   *)
(* messages the logged rule results and decode reports give to a field.    *)

Visit(path, m, r) == [path |-> path, m |-> m, r |-> r]

\* the object at `path` with its result object, and every object below it that the
\* schema loop recursed into (nested typed objects and array elements of in-scope
\* fields)
RECURSIVE VisitedFrom(_, _, _)
VisitedFrom(path, m, r) ==
    {Visit(path, m, r)} \cup
    (IF ~hasGetType(m) THEN {}
     ELSE UNION {
        LET key == Schema[m.cls][i].key
            value == Get(m, key)
            node == Get(r, key)
        IN  IF ~isInValidationPath(path \o key, validationPath) \/ ~IsObjectLike(node)
              THEN {}
            ELSE IF isTypedRecord(value)
              THEN VisitedFrom(path \o key \o ".", value, node)
            ELSE IF IsArray(value) /\ IsArray(node)
              THEN UNION { IF isTypedRecord(value.items[k]) /\ IsObjectLike(node.items[k])
                             THEN VisitedFrom(path \o key \o "[" \o ToString(k - 1) \o "].",
                                              value.items[k], node.items[k])
                             ELSE {}
                           : k \in 1..(IF Len(node.items) < Len(value.items)
                                         THEN Len(node.items) ELSE Len(value.items)) }
            ELSE {}
        : i \in 1..Len(Schema[m.cls]) })

Visited == VisitedFrom(".", model, outcome.result)

\* the messages that a value `res`, merged under `key`, gives to `field`, in order:
\* a string goes to `key`, a partial mapping gives each of its values to its key
RECURSIVE Attributed(_, _, _)
RECURSIVE AttributedKeys(_, _, _)
Attributed(key, res, field) ==
    IF res.t = "string" THEN (IF key = field THEN << res >> ELSE <<>>)
    ELSE IF res.t = "object" THEN AttributedKeys(res, field, 1)
    ELSE <<>>
AttributedKeys(r, field, i) ==
    IF i > Len(r.keys) THEN <<>>
    ELSE Attributed(r.keys[i], r.props[r.keys[i]], field) \o AttributedKeys(r, field, i + 1)

\* the messages the first n log entries give to `field` of the object at `path`
RECURSIVE MessagesUpTo(_, _, _)
MessagesUpTo(path, field, n) ==
    IF n = 0 THEN <<>>
    ELSE MessagesUpTo(path, field, n - 1) \o
         (IF outcome.log[n].path = path /\ outcome.log[n].ev \in {"rule", "decode"}
            THEN Attributed(outcome.log[n].key, outcome.log[n].res, field)
            ELSE <<>>)
MessagesFor(path, field) == MessagesUpTo(path, field, Len(outcome.log))

\* a sequence without its repetitions, in order of first appearance
RECURSIVE Distinct(_)
Distinct(seq) ==
    IF seq = <<>> THEN <<>>
    ELSE LET front == Distinct(SubSeq(seq, 1, Len(seq) - 1))
         IN  IF \E i \in 1..Len(front) : front[i] = seq[Len(seq)]
               THEN front
               ELSE Append(front, seq[Len(seq)])

InSeq(x, seq) == \E i \in 1..Len(seq) : seq[i] = x

\* the error list of a node: the `errors` list of an array node, the list itself
\* of a plain list, nothing for a nested node
ErrorList(node) ==
    IF isValidationArray(node) THEN Get(node, "errors").items
    ELSE IF IsArray(node) THEN node.items
    ELSE <<>>

\* the indices of the rules of a field that were invoked, in invocation order
RECURSIVE InvokedUpTo(_, _, _)
InvokedUpTo(path, key, n) ==
    IF n = 0 THEN <<>>
    ELSE InvokedUpTo(path, key, n - 1) \o
         (IF outcome.log[n].ev = "rule" /\ outcome.log[n].path = path
             /\ outcome.log[n].key = key
            THEN << outcome.log[n].i >>
            ELSE <<>>)
Invoked(path, key) == InvokedUpTo(path, key, Len(outcome.log))

---------------------------------------------------------------------------
(* C2: in a resolved validate, every rule of an in-scope field of a        *)
(* visited object is invoked exactly once, in registration order, whether  *)
(* or not earlier rules failed; the field's error list (the `errors` list  *)
(* of an array field) holds the messages given to the field, each distinct *)
(* message once, in order of first appearance.                             *)
C2_AllRulesOnceDistinctMessages ==
    Resolved =>
        \A o \in Visited :
            LET validators == getValidatorsFor(map, o.m.cls)
            IN  \A key \in DOMAIN validators.props :
                    isInValidationPath(o.path \o key, validationPath) =>
                        /\ Invoked(o.path, key) =
                              [i \in 1..Len(validators.props[key]) |-> i - 1]
                        /\ HasOwn(o.r, key)
                        /\ ErrorList(Get(o.r, key)) = Distinct(MessagesFor(o.path, key))

\* a field whose rules gave it the same message twice and then another one
C2_Witness ==
    /\ Resolved
    /\ Len(Invoked(".", "Addresses")) = 2
    /\ Len(MessagesFor(".", "Addresses")) = 3
    /\ ErrorList(Get(outcome.result, "Addresses"))
          = << Str(MsgAddresses), Str("Addresses need a FirstName") >>

---------------------------------------------------------------------------
(* C3: when a rule registered under field F returns a partial mapping      *)
(* giving a message to another, non-array field G of the same object, the  *)
(* message is in G's error list, and it is not in F's error list (unless a *)
(* result gave that message to F itself).                                  *)
VisitAt(path) == CHOOSE o \in Visited : o.path = path

C3_SeparateFieldMessage ==
    Resolved =>
        \A n \in 1..Len(outcome.log) :
            LET e == outcome.log[n]
            IN  (e.ev = "rule" /\ e.res.t = "object") =>
                    \A G \in DOMAIN e.res.props :
                        (/\ G # e.key
                         /\ e.res.props[G].t = "string"
                         /\ HasOwn(VisitAt(e.path).m, G)
                         /\ ~IsArray(Get(VisitAt(e.path).m, G)))
                        => /\ InSeq(e.res.props[G], ErrorList(Get(VisitAt(e.path).r, G)))
                           /\ InSeq(e.res.props[G], MessagesFor(e.path, e.key))
                              \/ ~InSeq(e.res.props[G],
                                        ErrorList(Get(VisitAt(e.path).r, e.key)))

\* the first rule list's partial mapping gave LastName its message
C3_Witness ==
    /\ Resolved
    /\ \E n \in 1..Len(outcome.log) :
          /\ outcome.log[n].ev = "rule"
          /\ outcome.log[n].key = "FirstName"
          /\ outcome.log[n].res.t = "object"
          /\ "LastName" \in DOMAIN outcome.log[n].res.props
    /\ ErrorList(Get(outcome.result, "LastName")) = << Str("Separate field error") >>
    /\ ErrorList(Get(outcome.result, "FirstName")) = << Str(MsgFirstName) >>

---------------------------------------------------------------------------
(* C4: the node of an array-valued field keeps two channels apart.  The    *)
(* messages given to the field, by a rule of the field returning a string  *)
(* or by a partial mapping naming the field, are its `errors` list; every  *)
(* element of the node is the result object of an array element, never a   *)
(* message; and the lists inside an element's node hold the messages given *)
(* to that element's fields and nothing else.                              *)
C4_ArrayChannelsApart ==
    Resolved =>
        \A o \in Visited :
            \A key \in DOMAIN o.r.props :
                IsArray(Get(o.m, key)) =>
                    LET node == Get(o.r, key)
                    IN  /\ isValidationArray(node)
                        /\ Get(node, "errors").items = Distinct(MessagesFor(o.path, key))
                        /\ \A k \in 1..Len(node.items) :
                              /\ node.items[k].t = "object"
                              /\ \A f \in DOMAIN node.items[k].props :
                                    ErrorList(node.items[k].props[f]) =
                                        Distinct(MessagesFor(
                                            o.path \o key \o "[" \o ToString(k - 1) \o "].", f))

\* an array node with a message of its own and an element with an error of its own
C4_Witness ==
    /\ Resolved
    /\ isValidationArray(Get(outcome.result, "Addresses"))
    /\ Get(Get(outcome.result, "Addresses"), "errors").items
          = << Str("Addresses need a FirstName") >>
    /\ Len(Get(outcome.result, "Addresses").items) = 2
    /\ ErrorList(Get(Get(outcome.result, "Addresses").items[1], "StreetAddress1"))
          = << Str("StreetAddress1 is required") >>

---------------------------------------------------------------------------
(* C5 as claimed: every array-typed schema field that has a node in the    *)
(* result has as many element nodes as the model's array has elements, and *)
(* the node carries an `errors` list.                                      *)
ArrayProps(m) ==
    { Schema[m.cls][i].key : i \in { j \in 1..Len(Schema[m.cls]) :
                                       tagContains(Schema[m.cls][j].tag, "ArrayType") } }

C5_EveryArrayNodeAligned ==
    Resolved =>
        \A o \in Visited :
            \A key \in ArrayProps(o.m) :
                HasOwn(o.r, key) =>
                    /\ IsArray(Get(o.r, key))
                    /\ Len(Get(o.r, key).items) = LengthOf(Get(o.m, key))
                    /\ IsArray(Get(Get(o.r, key), "errors"))

(* C5 as amended: every array-typed schema field whose path is in scope    *)
(* has a node with as many element nodes as the model's array has          *)
(* elements, and with an `errors` list even when no rule populated it.  An *)
(* array field outside the scope has a node only when a partial mapping    *)
(* gave it a message: that node has the `errors` list and no element.      *)
C5_InScopeArrayNodeAligned ==
    Resolved =>
        \A o \in Visited :
            \A key \in ArrayProps(o.m) :
                IF isInValidationPath(o.path \o key, validationPath)
                  THEN /\ HasOwn(o.r, key)
                       /\ IsArray(Get(o.r, key))
                       /\ Len(Get(o.r, key).items) = LengthOf(Get(o.m, key))
                       /\ IsArray(Get(Get(o.r, key), "errors"))
                  ELSE HasOwn(o.r, key) =>
                       /\ IsArray(Get(o.r, key))
                       /\ Len(Get(o.r, key).items) = 0
                       /\ Len(ErrorList(Get(o.r, key))) > 0
                       /\ Len(MessagesFor(o.path, key)) > 0

\* a scoped validation of one element of a two-element array whose elements are
\* free of errors and whose `errors` list no rule populated
C5_Witness ==
    /\ Resolved
    /\ validationPath = Str(".Addresses[0].StreetAddress1")
    /\ Len(Get(model, "Addresses").items) = 2
    /\ Len(Get(outcome.result, "Addresses").items) = 2
    /\ \A k \in 1..2 : isValid(Get(outcome.result, "Addresses").items[k])
    /\ Get(Get(outcome.result, "Addresses"), "errors") = EmptyArray
    /\ MessagesFor(".", "Addresses") = <<>>

---------------------------------------------------------------------------
(* C6 as claimed: the node of a schema field has the shape class of the    *)
(* model value: a plain list for a primitive value, a list with an         *)
(* `errors` list for an array, and for a typed object a nested node that   *)
(* is not a list, whatever the rules registered on the field return.       *)
C6_NodeHasShapeOfModel ==
    Resolved =>
        \A o \in Visited :
            \A key \in DOMAIN o.r.props :
                LET value == Get(o.m, key)
                    node == Get(o.r, key)
                IN  /\ isPrimitive(value) => IsArray(node) /\ ~isValidationArray(node)
                    /\ IsArray(value) => isValidationArray(node)
                    /\ isTypedRecord(value) => ~IsArray(node)

---------------------------------------------------------------------------
(* C7 as claimed: when a nested typed object (in a direct field, a         *)
(* nullable field or an array element) has a sub-field with at least one   *)
(* error, isValid of the result is false, also when the field holding the  *)
(* object has rules of its own.                                            *)
C7_NestedErrorMakesInvalid ==
    (Resolved /\ valid # Undefined) =>
        \A o \in Visited :
            (o.path # "." /\ \E key \in DOMAIN o.r.props :
                                Len(ErrorList(Get(o.r, key))) > 0)
            => valid = Bool(FALSE)

---------------------------------------------------------------------------
(* C8: on a graph built from field error lists, array nodes and nested     *)
(* nodes, isValid is true exactly when the graph holds no message at all:  *)
(* none in a field's list, none in an array node's `errors`, none in any   *)
(* element node or nested node, recursively.                               *)
RECURSIVE AllMessages(_)
AllMessages(node) ==
    { node.items[i] : i \in { j \in 1..Len(node.items) : node.items[j].t = "string" } }
    \cup UNION { AllMessages(node.items[i]) :
                    i \in { j \in 1..Len(node.items) : IsObjectLike(node.items[j]) } }
    \cup UNION { AllMessages(node.props[k]) : k \in DOMAIN node.props }

C8_IsValidIffNoMessage ==
    valid # Undefined => (valid = Bool(AllMessages(outcome.result) = {}))

\* isValid has returned false for a graph whose only message is in an element node
C8_Witness ==
    /\ valid = Bool(FALSE)
    /\ HasOwn(outcome.result, "Addresses")
    /\ Get(Get(outcome.result, "Addresses"), "errors") = EmptyArray
    /\ \A k \in DOMAIN outcome.result.props :
          k # "Addresses" => AllMessages(outcome.result.props[k]) = {}

\* the graphs isValid is given: field lists, a nested node, an array node
ErrorLists == { Arr(<<>>), Arr(<< Str("is required") >>) }
LeafNodes == { EmptyObject } \cup { Record(<<"StreetAddress1">>, [StreetAddress1 |-> l]) :
                                      l \in ErrorLists }
ArrayNodes ==
    { Set(Arr(elements), "errors", errors) :
        elements \in SeqsUpTo(LeafNodes, MaxArrayLen), errors \in ErrorLists }
Absent == {Undefined}
WithProp(o, key, v) == IF v = Undefined THEN o ELSE Set(o, key, v)
Graphs ==
    { WithProp(WithProp(WithProp(EmptyObject, "FirstName", f), "Address", a), "Addresses", as) :
        f \in ErrorLists \cup Absent, a \in LeafNodes \cup Absent,
        as \in ArrayNodes \cup Absent }

\* a caller holding some graph, about to call isValid on it
Init_IsValid ==
    /\ map = <<>>
    /\ registered = <<>>
    /\ pc = "settled"
    /\ model = Undefined
    /\ originalModel = Undefined
    /\ validationPath = Null
    /\ outcome \in { [result |-> g, log |-> <<>>, threw |-> FALSE] : g \in Graphs }
    /\ valid = Undefined
    /\ called = NoCall
    /\ returned = Undefined
    /\ inflight = NoneInFlight

Next_IsValid == IsValid

Spec_IsValid == Init_IsValid /\ [][Next_IsValid]_vars

---------------------------------------------------------------------------
(* Scoped validation.                                                      *)

Scoped == Resolved /\ validationPath # Null

\* the field's accumulated path is a string prefix of the scope path
IsPrefixOfScope(path) == startsWith(validationPath.s, path)

\* a log entry showing that a rule of an in-scope field of the object at `path`,
\* other than `field` itself, gave `message` to `field` through a partial mapping
GivenBySeparateRule(path, field, message) ==
    \E n \in 1..Len(outcome.log) :
        /\ outcome.log[n].ev = "rule"
        /\ outcome.log[n].path = path
        /\ outcome.log[n].key # field
        /\ IsPrefixOfScope(path \o outcome.log[n].key)
        /\ outcome.log[n].res.t = "object"
        /\ InSeq(message, Attributed(outcome.log[n].key, outcome.log[n].res, field))

(* C9 as claimed: in a scoped validation the result holds no error for a   *)
(* field whose accumulated path is not a string prefix of the scope path,  *)
(* at every level of the recursion.                                        *)
C9_NoErrorOutsideScope ==
    Scoped =>
        \A o \in Visited :
            \A key \in DOMAIN o.r.props :
                ~IsPrefixOfScope(o.path \o key) => ErrorList(Get(o.r, key)) = <<>>

(* C9 as amended: in a scoped validation, every error the result holds for *)
(* a field whose accumulated path is not a string prefix of the scope path *)
(* was given to it by the partial mapping of a rule registered on an       *)
(* in-scope field of the same object; no rule of the field itself and no   *)
(* schema check of it put an error there.                                  *)
C9_ErrorOutsideScopeOnlyBySeparateRule ==
    Scoped =>
        \A o \in Visited :
            \A key \in DOMAIN o.r.props :
                ~IsPrefixOfScope(o.path \o key) =>
                    LET errors == ErrorList(Get(o.r, key))
                    IN  \A i \in 1..Len(errors) :
                            GivenBySeparateRule(o.path, key, errors[i])

\* under scope .FirstName, LastName holds the message a rule of FirstName gave it,
\* and the rules registered on Addresses contributed nothing
C9_Witness ==
    /\ Scoped
    /\ validationPath = Str(".FirstName")
    /\ ErrorList(Get(outcome.result, "LastName")) = << Str("Separate field error") >>
    /\ Len(StoredFor("Person", "Addresses")) = 2
    /\ Get(model, "Addresses") = EmptyArray
    /\ ErrorList(Get(outcome.result, "Addresses")) = << Str(MsgAddresses) >>

---------------------------------------------------------------------------
(* C10 as claimed: scoped validation evaluates and reports only the scoped *)
(* field and the fields on the path leading to it.  A field is on that     *)
(* path when the scope path is its path, or continues it with `.` or `[`;  *)
(* every other field has no rule invoked, no schema check run and no entry *)
(* in the result.                                                          *)
IsOnPathToScope(path) ==
    /\ startsWith(validationPath.s, path)
    /\ \/ Len(path) = Len(validationPath.s)
       \/ SubSeq(validationPath.s, Len(path) + 1, Len(path) + 1) \in {".", "["}

\* the paths of the entries of a result graph whose own path prefix is `path`
\* (the `errors` list of an array node is part of the node, not an entry)
RECURSIVE EntryPaths(_, _)
EntryPaths(path, r) ==
    UNION { {[path |-> path, key |-> key]}
            \cup (IF IsArray(r.props[key])
                    THEN UNION { IF IsObjectLike(r.props[key].items[k])
                                   THEN EntryPaths(path \o key \o "[" \o ToString(k - 1) \o "].",
                                                   r.props[key].items[k])
                                   ELSE {}
                                 : k \in 1..Len(r.props[key].items) }
                    ELSE {})
            \cup (IF IsObjectLike(r.props[key])
                    THEN EntryPaths(path \o key \o ".", r.props[key])
                    ELSE {})
          : key \in IF IsArray(r) THEN DOMAIN r.props \ {"errors"} ELSE DOMAIN r.props }

C10_OnlyPathToScopeEvaluated ==
    Scoped =>
        /\ \A n \in 1..Len(outcome.log) :
              IsOnPathToScope(outcome.log[n].path \o outcome.log[n].key)
        /\ \A e \in EntryPaths(".", outcome.result) : IsOnPathToScope(e.path \o e.key)
        /\ \A o \in Visited :
              \A i \in 1..Len(Schema[o.m.cls]) :
                  IsOnPathToScope(o.path \o Schema[o.m.cls][i].key) =>
                      /\ HasOwn(o.r, Schema[o.m.cls][i].key)
                      /\ \E n \in 1..Len(outcome.log) :
                            outcome.log[n] = SchemaEvent(o.path, Schema[o.m.cls][i].key)

\* the keys a partial mapping names, at any depth
RECURSIVE NamedKeys(_)
NamedKeys(res) ==
    IF res.t # "object" THEN {}
    ELSE DOMAIN res.props \cup UNION { NamedKeys(res.props[k]) : k \in DOMAIN res.props }

\* a rule of an in-scope field of the object at `path` returned a mapping naming `field`
NamedBySeparateRule(path, field) ==
    \E n \in 1..Len(outcome.log) :
        /\ outcome.log[n].ev = "rule"
        /\ outcome.log[n].path = path
        /\ IsPrefixOfScope(path \o outcome.log[n].key)
        /\ field \in NamedKeys(outcome.log[n].res)

(* C10 as amended: scoped validation evaluates the fields whose path is a  *)
(* string prefix of the scope path, which includes a sibling whose name    *)
(* begins the scoped field's name (.Address under .Addresses[0]...).       *)
(* Every visited field whose path is such a prefix has its schema check    *)
(* run and an entry in the result; every other field has no rule invoked   *)
(* and no schema check run, and has an entry in the result only if the     *)
(* partial mapping of a rule of an in-scope field names it.                *)
C10_OnlyPrefixesOfScopeEvaluated ==
    Scoped =>
        /\ \A n \in 1..Len(outcome.log) :
              IsPrefixOfScope(outcome.log[n].path \o outcome.log[n].key)
        /\ \A e \in EntryPaths(".", outcome.result) :
              IsPrefixOfScope(e.path \o e.key) \/ NamedBySeparateRule(e.path, e.key)
        /\ \A o \in Visited :
              \A i \in 1..Len(Schema[o.m.cls]) :
                  IsPrefixOfScope(o.path \o Schema[o.m.cls][i].key) =>
                      /\ HasOwn(o.r, Schema[o.m.cls][i].key)
                      /\ \E n \in 1..Len(outcome.log) :
                            outcome.log[n] = SchemaEvent(o.path, Schema[o.m.cls][i].key)

\* under scope .Address.StreetAddress2 the nested field was reached and reported,
\* its sibling StreetAddress1 and the other fields of the person were not
C10_Witness ==
    /\ Scoped
    /\ validationPath = Str(".Address.StreetAddress2")
    /\ Len(StoredFor("PersonAddress", "StreetAddress1")) = 1
    /\ Len(StoredFor("Person", "FirstName")) > 0
    /\ DOMAIN outcome.result.props = {"Address"}
    /\ DOMAIN Get(outcome.result, "Address").props = {"StreetAddress2"}
    /\ Get(Get(model, "Address"), "StreetAddress1") = Str("")
    /\ Invoked(".Address.", "StreetAddress2") = << 0 >>
    /\ Invoked(".Address.", "StreetAddress1") = <<>>

---------------------------------------------------------------------------
(* Partial mappings under a scope: rules that name other fields of their   *)
(* object, reporting a message or null for each.                           *)

\* (p) => ({ LastName: p.FirstName === "" ? "Separate field error" : null,
\*           Addresses: p.FirstName === "" ? "Must have at least one address" : null })
SeparateArrayField ==
    ModelRule(FieldEquals("FirstName", Str("")),
              Record(<<"LastName", "Addresses">>,
                     [LastName |-> Str("Separate field error"),
                      Addresses |-> Str(MsgAddresses)]),
              Record(<<"LastName", "Addresses">>,
                     [LastName |-> Null, Addresses |-> Null]))
\* (a) => ({ StreetAddress2: a.StreetAddress1 === "" ? "StreetAddress2 ..." : null })
SeparateStreetField ==
    ModelRule(FieldEquals("StreetAddress1", Str("")),
              Record(<<"StreetAddress2">>,
                     [StreetAddress2 |-> Str("StreetAddress2 needs StreetAddress1")]),
              Record(<<"StreetAddress2">>, [StreetAddress2 |-> Null]))

RegisterCalls_Partial ==
    { RegisterCall("Person",
          Record(<<"NullableAddress">>, [NullableAddress |-> SeparateNullableField])),
      RegisterCall("Person",
          Record(<<"NullableAddress">>, [NullableAddress |-> SeparateArrayField])),
      RegisterCall("Person",
          Record(<<"FirstName">>,
                 [FirstName |-> RuleArray(<< required(MsgFirstName), SeparateFields >>)])),
      RegisterCall("PersonAddress",
          Record(<<"StreetAddress1">>, [StreetAddress1 |-> SeparateStreetField])) }

ValidationPaths_Partial ==
    { Str(".NullableAddress.StreetAddress1"), Str(".FirstName"),
      Str(".Address.StreetAddress1") }

Next_Partial ==
    \/ \E call \in RegisterCalls_Partial : Register(call)
    \/ \E m \in Models, vpath \in ValidationPaths_Partial : Validate(m, Undefined, vpath)
    \/ Return

Spec_Partial == Init /\ [][Next_Partial]_vars

\* the fields outside the scope that the partial mapping of an in-scope rule of
\* the object at `path` names, with a message or null
NamedOutsideScope(path) ==
    { G \in FieldNames :
        /\ ~IsPrefixOfScope(path \o G)
        /\ \E n \in 1..Len(outcome.log) :
              /\ outcome.log[n].ev = "rule"
              /\ outcome.log[n].path = path
              /\ outcome.log[n].key # G
              /\ outcome.log[n].res.t = "object"
              /\ G \in DOMAIN outcome.log[n].res.props
              /\ outcome.log[n].res.props[G].t \in {"string", "null"} }

(* C11 as claimed: under a scope, a field G outside the scope that the     *)
(* partial mapping of an in-scope rule of the same object names has an     *)
(* entry in the result: its list holds the messages reported for it, and   *)
(* is present and empty when null was reported.                            *)
C11_NamedFieldHasEntry ==
    Scoped =>
        \A o \in Visited :
            \A G \in NamedOutsideScope(o.path) :
                /\ HasOwn(o.r, G)
                /\ IsArray(Get(o.r, G))
                /\ ErrorList(Get(o.r, G)) = Distinct(MessagesFor(o.path, G))

(* C11 as amended: the same for a field G whose value is not an array.  An *)
(* array-valued G has an entry only when a message was reported for it     *)
(* (the entry is then an array node with that message in `errors` and no   *)
(* elements); when only null was reported for it, it has no entry.         *)
C11_NamedNonArrayFieldHasEntry ==
    Scoped =>
        \A o \in Visited :
            \A G \in NamedOutsideScope(o.path) :
                IF ~IsArray(Get(o.m, G))
                  THEN /\ HasOwn(o.r, G)
                       /\ IsArray(Get(o.r, G))
                       /\ ErrorList(Get(o.r, G)) = Distinct(MessagesFor(o.path, G))
                  ELSE IF MessagesFor(o.path, G) = <<>>
                         THEN ~HasOwn(o.r, G)
                         ELSE /\ isValidationArray(Get(o.r, G))
                              /\ Get(o.r, G).items = <<>>
                              /\ ErrorList(Get(o.r, G)) = Distinct(MessagesFor(o.path, G))

\* under scope .NullableAddress.StreetAddress1 the rule of NullableAddress reported
\* null for FirstName, and FirstName has an empty list in the result
C11_Witness ==
    /\ Scoped
    /\ validationPath = Str(".NullableAddress.StreetAddress1")
    /\ StoredFor("Person", "NullableAddress") = << SeparateNullableField >>
    /\ Get(model, "FirstName") = Str("Test")
    /\ "FirstName" \in NamedOutsideScope(".")
    /\ Get(outcome.result, "FirstName") = EmptyArray

---------------------------------------------------------------------------
(* Validating the same model twice.                                        *)

ValidationPaths_Twice == { Null, Str(".Addresses[0].StreetAddress1") }

Next_Twice ==
    \/ \E call \in RegisterCalls : Register(call)
    \/ \E m \in Models, vpath \in ValidationPaths_Twice : Validate(m, Undefined, vpath)
    \/ Revalidate
    \/ Return
    \/ ReturnAgain

Spec_Twice == Init /\ [][Next_Twice]_vars

---------------------------------------------------------------------------
(* Validating against an original model.                                   *)

\* (p, ctx, original) => original !== undefined && original.FirstName === 'Test'
\*     && p.FirstName === 'new FirstName' ? 'original FirstName error' : null
OriginalFirstName ==
    ModelRule(ChangedFrom("FirstName", Str("Test"), Str("new FirstName")),
              Str("original FirstName error"), Null)
\* the same kind of rule on a field of the nested class
OriginalStreetAddress1 ==
    ModelRule(ChangedFrom("StreetAddress1", Str("Test"), Str("")),
              Str("original StreetAddress1 error"), Null)

RegisterCalls_Original ==
    { RegisterCall("Person",
          Record(<<"FirstName">>,
                 [FirstName |-> RuleArray(<< required(MsgFirstName), OriginalFirstName >>)])),
      RegisterCall("PersonAddress",
          Record(<<"StreetAddress1">>, [StreetAddress1 |-> OriginalStreetAddress1])),
      RegisterCall("PersonAddress",
          Record(<<"StreetAddress1">>,
                 [StreetAddress1 |-> required("StreetAddress1 is required")])) }

Models_Original ==
    { Person(f, a, as, n) :
        f \in {"Test", "new FirstName"}, a \in AddressValues,
        as \in SeqsUpTo(AddressValues, MaxArrayLen),
        n \in {Null, PersonAddress("", "Test")} }

\* no original; a copy of the valid person; one with a shorter array; one lacking
\* the keys of the nested fields; one holding null in them
Originals ==
    { Undefined,
      Person("Test", PersonAddress("Test", "Test"), << PersonAddress("Test", "Test") >>,
             PersonAddress("Test", "Test")),
      Person("Test", PersonAddress("", "Test"), <<>>, Null),
      Obj("Person", <<"FirstName">>, [FirstName |-> Str("Test")]),
      Obj("Person", <<"FirstName", "Address", "Addresses">>,
          [FirstName |-> Str("Test"), Address |-> Null, Addresses |-> Null]) }

ValidationPaths_Original == { Null, Str(".Address.StreetAddress1") }

Next_Original ==
    \/ \E call \in RegisterCalls_Original : Register(call)
    \/ \E m \in Models_Original, original \in Originals,
          vpath \in ValidationPaths_Original : Validate(m, original, vpath)
    \/ Return

Spec_Original == Init /\ [][Next_Original]_vars

\* originalModel[f] when the original has key f, otherwise undefined
SliceOf(original, f) ==
    IF IsObjectLike(original) /\ f \in DOMAIN original.props
      THEN original.props[f]
      ELSE Undefined
\* element k (from 0) of the original array when it has more than k elements
ElementOf(originalArray, k) ==
    IF IsArray(originalArray) /\ Len(originalArray.items) > k
      THEN originalArray.items[k + 1]
      ELSE Undefined

\* every typed object of the model with its path, and the slice of the original
\* model that belongs to its level
RECURSIVE Levels(_, _, _)
Levels(path, m, original) ==
    {[path |-> path, m |-> m, original |-> original]} \cup
    UNION {
        LET key == Schema[m.cls][i].key
            value == Get(m, key)
        IN  IF isTypedRecord(value)
              THEN Levels(path \o key \o ".", value, SliceOf(original, key))
            ELSE IF IsArray(value)
              THEN UNION { IF isTypedRecord(value.items[k])
                             THEN Levels(path \o key \o "[" \o ToString(k - 1) \o "].",
                                         value.items[k],
                                         ElementOf(SliceOf(original, key), k - 1))
                             ELSE {}
                           : k \in 1..Len(value.items) }
            ELSE {}
        : i \in 1..Len(Schema[m.cls]) }

\* the messages of the rules stored for a field that fire on a change of the field
\* away from an original value, with their conditions
ChangeRules(klass, field) ==
    { StoredFor(klass, field)[i] :
        i \in { j \in 1..Len(StoredFor(klass, field)) :
                  /\ StoredFor(klass, field)[j].tag = "function"
                  /\ StoredFor(klass, field)[j].cond.c = "changed" } }

(* C13: every rule invocation of a settled validate was given the slice of *)
(* the original model of its own level: the supplied original at the top,  *)
(* originalModel[f] below a nested field f (undefined when the original    *)
(* lacks f), the original array's element k below element k (undefined     *)
(* when the original array is shorter).  So in a resolved validate a rule   *)
(* that fires on a change away from an original value has its message in   *)
(* its field's list, once, exactly when the slice of its level holds that   *)
(* original value and the model holds the changed one, and never when no   *)
(* original was supplied.                                                  *)
C13_RulesSeeOriginalOfTheirLevel ==
    pc = "settled" =>
        /\ \A n \in 1..Len(outcome.log) :
              outcome.log[n].ev = "rule" =>
                  \E l \in Levels(".", model, originalModel) :
                      /\ l.path = outcome.log[n].path
                      /\ l.original = outcome.log[n].original
        /\ ~outcome.threw =>
              \A o \in Visited, l \in Levels(".", model, originalModel) :
                  l.path = o.path =>
                      \A field \in FieldNames :
                          \A rule \in ChangeRules(o.m.cls, field) :
                              isInValidationPath(o.path \o field, validationPath) =>
                                  LET fires == /\ IsObjectLike(l.original)
                                               /\ SliceOf(l.original, field) = rule.cond.from
                                               /\ Get(o.m, field) = rule.cond.to
                                      list == ErrorList(Get(o.r, field))
                                  IN  /\ fires <=> InSeq(rule.then, list)
                                      /\ Cardinality({ i \in 1..Len(list) :
                                                         list[i] = rule.then }) <= 1
                                      /\ originalModel = Undefined => ~InSeq(rule.then, list)

\* the rules of the top level, of the nested Address and of the second array
\* element were invoked with their slices: the rule of the top level and the rule
\* of Address fired, the second element has no original and its rule did not
C13_Witness ==
    /\ Resolved
    /\ validationPath = Null
    /\ IsArray(SliceOf(originalModel, "Addresses"))
    /\ Len(SliceOf(originalModel, "Addresses").items) = 1
    /\ Len(Get(model, "Addresses").items) = 2
    /\ IsObjectLike(Get(outcome.result, "Address"))
    /\ ErrorList(Get(outcome.result, "FirstName")) = << Str("original FirstName error") >>
    /\ ErrorList(Get(Get(outcome.result, "Address"), "StreetAddress1"))
          = << Str("original StreetAddress1 error") >>
    /\ \E n \in 1..Len(outcome.log) :
          /\ outcome.log[n].ev = "rule"
          /\ outcome.log[n].path = ".Addresses[1]."
          /\ outcome.log[n].original = Undefined
    /\ \E n \in 1..Len(outcome.log) :
          /\ outcome.log[n].ev = "rule"
          /\ outcome.log[n].path = ".Addresses[0]."
          /\ outcome.log[n].original = PersonAddress("Test", "Test")

---------------------------------------------------------------------------
(* Primitive fields holding values of any kind.                            *)

MsgNotAString == "Invalid value 5 supplied to : string"

\* (p) => p.FirstName === 5 ? 'Invalid value 5 supplied to : string' : null
SameAsDecoder == ModelRule(FieldEquals("FirstName", Num(5)), Str(MsgNotAString), Null)
\* (p) => p.FirstName === "" ? { FirstName: "FirstName is required" } : null
NamesFirstName ==
    ModelRule(FieldEquals("FirstName", Str("")),
              Record(<<"FirstName">>, [FirstName |-> Str(MsgFirstName)]), Null)

RegisterCalls_Primitive ==
    { RegisterCall("Person",
          Record(<<"FirstName">>,
                 [FirstName |-> RuleArray(<< required(MsgFirstName), SameAsDecoder >>)])),
      RegisterCall("Person", Record(<<"LastName">>, [LastName |-> NamesFirstName])),
      RegisterCall("PersonAddress",
          Record(<<"StreetAddress1">>,
                 [StreetAddress1 |-> required("StreetAddress1 is required")])) }

\* new Person({...}) whose FirstName was then set to a value of any kind, or deleted
PersonHolding(firstName, address, addresses) ==
    IF firstName = Undefined
      THEN Obj("Person", <<"LastName", "Address", "Addresses", "NullableAddress">>,
               [LastName |-> Str("TestLast"), Address |-> address,
                Addresses |-> Arr(addresses), NullableAddress |-> Null])
      ELSE Obj("Person", <<"FirstName", "LastName", "Address", "Addresses", "NullableAddress">>,
               [FirstName |-> firstName, LastName |-> Str("TestLast"), Address |-> address,
                Addresses |-> Arr(addresses), NullableAddress |-> Null])

AddressHolding(s1) ==
    Obj("PersonAddress", <<"StreetAddress1", "StreetAddress2">>,
        [StreetAddress1 |-> s1, StreetAddress2 |-> Str("Test")])

FirstNameValues ==
    { Str(""), Str("Test"), Num(5), Null, Undefined, EmptyArray,
      PersonAddress("", "Test") }

Models_Primitive ==
    { PersonHolding(f, a, as) :
        f \in FirstNameValues,
        a \in { AddressHolding(Str("Test")), AddressHolding(Num(5)) },
        as \in SeqsUpTo({ AddressHolding(Str("")), AddressHolding(Null) }, MaxArrayLen) }

ValidationPaths_Primitive == { Null, Str(".FirstName"), Str(".Address.StreetAddress1") }

Next_Primitive ==
    \/ \E call \in RegisterCalls_Primitive : Register(call)
    \/ \E m \in Models_Primitive, vpath \in ValidationPaths_Primitive :
          Validate(m, Undefined, vpath)
    \/ Return

Spec_Primitive == Init /\ [][Next_Primitive]_vars

\* the schema fields of an object that are neither nested nor array-typed
PrimitiveProps(m) ==
    { i \in 1..Len(Schema[m.cls]) : Schema[m.cls][i].tag = "StringType" }

\* the messages the rules gave to a field of the object at `path`, in order
RECURSIVE RuleMessagesUpTo(_, _, _)
RuleMessagesUpTo(path, field, n) ==
    IF n = 0 THEN <<>>
    ELSE RuleMessagesUpTo(path, field, n - 1) \o
         (IF outcome.log[n].path = path /\ outcome.log[n].ev = "rule"
            THEN Attributed(outcome.log[n].key, outcome.log[n].res, field)
            ELSE <<>>)
RuleMessagesFor(path, field) == RuleMessagesUpTo(path, field, Len(outcome.log))

---------------------------------------------------------------------------
(* Rules that misbehave, and models holding null or wrongly typed values   *)
(* in their nested and array-typed fields.                                 *)

\* (p) => { }
ReturnsUndefined == ModelRule(Always, Undefined, Undefined)
\* (p) => 5
ReturnsNumber == ModelRule(Always, Num(5), Num(5))
\* (p) => ({ LastName: 5 })
MapsToNumber ==
    ModelRule(Always, Record(<<"LastName">>, [LastName |-> Num(5)]), Null)
\* (p) => { throw new Error() }
Throws == ModelRule(Always, Throw, Throw)
\* (p) => Promise.reject(new Error())
Rejects == ModelRule(Always, RejectedPromise, RejectedPromise)
\* (p) => new Promise(resolve => resolve(p.LastName == null ? "LastName is required" : null))
ResolvesLater ==
    ModelRule(IsEmpty("LastName"), Promise(Str("LastName is required")), Promise(Null))

RegisterCalls_Misuse ==
    { RegisterCall("Person", Record(<<"FirstName">>, [FirstName |-> ReturnsUndefined])),
      RegisterCall("Person", Record(<<"Addresses">>, [Addresses |-> ReturnsNumber])),
      RegisterCall("Person", Record(<<"Address">>, [Address |-> ReturnsUndefined])),
      RegisterCall("Person", Record(<<"FirstName">>, [FirstName |-> MapsToNumber])),
      RegisterCall("Person", Record(<<"FirstName">>, [FirstName |-> Throws])),
      RegisterCall("Person", Record(<<"LastName">>, [LastName |-> Rejects])),
      RegisterCall("Person",
          Record(<<"LastName", "FirstName">>,
                 [LastName |-> ResolvesLater, FirstName |-> required(MsgFirstName)])),
      RegisterCall("PersonAddress",
          Record(<<"StreetAddress1">>,
                 [StreetAddress1 |-> required("StreetAddress1 is required")])) }

\* a Person whose fields were set to values of any kind
PersonOf(firstName, lastName, address, addresses, nullableAddress) ==
    Obj("Person", <<"FirstName", "LastName", "Address", "Addresses", "NullableAddress">>,
        [FirstName |-> firstName, LastName |-> lastName, Address |-> address,
         Addresses |-> addresses, NullableAddress |-> nullableAddress])

Models_Misuse ==
    { PersonOf(Str("Test"), l, a, as, Null) :
        l \in { Str("TestLast"), Null },
        a \in { PersonAddress("", "Test"), Null },
        as \in { Arr(seq) : seq \in SeqsUpTo({ PersonAddress("Test", "Test"), Null },
                                           MaxArrayLen) }
               \cup { Null, Str("ab") } }

Originals_Misuse ==
    { Undefined,
      PersonOf(Str("Test"), Str("TestLast"), Null, Null, Null) }

Next_Misuse ==
    \/ \E call \in RegisterCalls_Misuse : Register(call)
    \/ \E m \in Models_Misuse, original \in Originals_Misuse : Validate(m, original, Null)
    \/ Return

Spec_Misuse == Init /\ [][Next_Misuse]_vars

\* null, a string, or a partial mapping of such values
RECURSIVE ValidResult(_)
ValidResult(res) ==
    \/ res = Null
    \/ res.t = "string"
    \/ /\ res.t = "object"
       /\ Len(res.keys) > 0
       /\ \A k \in DOMAIN res.props : ValidResult(res.props[k])

\* a logged rule invocation that returned an invalid value
ReturnedInvalid(n) ==
    /\ outcome.log[n].ev = "rule"
    /\ outcome.log[n].res # Throw
    /\ ~ValidResult(outcome.log[n].res)
\* a logged rule invocation that threw, or whose promise rejected
ThrewOrRejected(n) == outcome.log[n].ev = "rule" /\ outcome.log[n].res = Throw

(* C15 as claimed: when a rule invocation yields a value that is not null, *)
(* not a string and not a valid partial mapping, the validate call fails:  *)
(* its promise rejects instead of resolving with a result graph.           *)
C15_InvalidResultFailsValidate ==
    pc = "settled" =>
        \A n \in 1..Len(outcome.log) : ReturnedInvalid(n) => outcome.threw

---------------------------------------------------------------------------
\* the value of a schema field does not have the declared type
Mismatched(prop, value) ==
    CASE prop.tag = "StringType" -> value.t # "string"
      [] prop.tag = "InterfaceType" -> ~isTypedRecord(value)
      [] prop.tag = "ArrayType" ->
            \/ ~IsArray(value)
            \/ \E k \in 1..Len(value.items) : ~isTypedRecord(value.items[k])
      [] prop.tag = "UnionType" -> value # Null /\ ~isTypedRecord(value)

\* the strings anywhere in a node of the result, none for a missing node
MessagesIn(node) == IF IsObjectLike(node) THEN AllMessages(node) ELSE {}

(* C16 as claimed: the promise of validate rejects exactly when a rule     *)
(* threw, a rule's promise rejected or a rule returned an invalid value;   *)
(* otherwise, whatever the values of the model's fields and whatever the   *)
(* original model, it resolves with a result graph in which every field    *)
(* whose value does not have the declared type holds an error string.      *)
C16_RejectsOnlyForRules ==
    pc = "settled" =>
        /\ outcome.threw <=>
              \E n \in 1..Len(outcome.log) : ThrewOrRejected(n) \/ ReturnedInvalid(n)
        /\ ~outcome.threw =>
              \A i \in 1..Len(Schema[model.cls]) :
                  Mismatched(Schema[model.cls][i], Get(model, Schema[model.cls][i].key))
                      => MessagesIn(Get(outcome.result, Schema[model.cls][i].key)) # {}

---------------------------------------------------------------------------
(* The rule primitives called on their own: v.validate(value) for the      *)
(* validators required, min and max give and the values a field can hold.  *)

MaxBound == 2
RuleBounds == 0..MaxBound
\* the default of required's parameter, line 145
DefaultRequiredMessage == "is required"
\* the message parameter of min and max: left out, empty, or given
RuleMessages == {Null, Str(""), Str("out of range")}
Validators ==
    {required(DefaultRequiredMessage), required("FirstName is required")}
    \cup { MinValidator(b, msg) : b \in RuleBounds, msg \in RuleMessages }
    \cup { MaxValidator(b, msg) : b \in RuleBounds, msg \in RuleMessages }
    \cup { MaxLengthValidator(b, msg) : b \in RuleBounds, msg \in RuleMessages }
\* an object with a property named length, as a model class with such a field gives
WithLength(len) == Obj("Measure", <<"length">>, [k \in {"length"} |-> len])
RuleElements == {Num(0), Num(9), Str("a")}
RuleArrays ==
    UNION { { Arr(items) : items \in [1..n -> RuleElements] } : n \in 0..MaxArrayLen }
RuleStrings == {"", "a", "ab", "abc", "abcd", "0", "01", "-5", "99", "  "}
RuleValues ==
    {Null, Undefined, Bool(TRUE), Bool(FALSE), EmptyObject,
     WithLength(Num(0)), WithLength(Num(2))}
    \cup { Num(n) : n \in -1..(MaxBound + 1) }
    \cup { Str(str) : str \in RuleStrings }
    \cup RuleArrays

\* v.validate(value)
FieldValidatorValidate(v, value) ==
    /\ called' = [op |-> "validate", v |-> v, value |-> value]
    /\ returned' = FieldValidator_validate(v, value)
    /\ UNCHANGED <<map, registered, pc, model, originalModel, validationPath,
                    outcome, valid, inflight>>

Next_Rules == \E v \in Validators, value \in RuleValues : FieldValidatorValidate(v, value)

Spec_Rules == Init /\ [][Next_Rules]_vars

CalledValidator(kind) == called.op = "validate" /\ called.v.kind = kind

---------------------------------------------------------------------------
(* C17                                                                     *)

HasLengthBelowOne(value) ==
    /\ value.t = "object"
    /\ "length" \in DOMAIN value.props
    /\ value.props["length"].t = "number"
    /\ value.props["length"].n < 1

---------------------------------------------------------------------------
(* C18                                                                     *)

\* C18: min(bound) returns no error for null and undefined; for a string or an
\* array it returns an error exactly when the length is below bound, and for a
\* number exactly when the value is below bound, one check per kind of value.
C18_MinOneCheckByKind ==
    CalledValidator("min") =>
        CASE called.value \in {Null, Undefined} -> returned = Null
          [] called.value.t = "string" ->
                (returned # Null <=> Len(called.value.s) < called.v.min)
          [] called.value.t = "array" ->
                (returned # Null <=> Len(called.value.items) < called.v.min)
          [] called.value.t = "number" ->
                (returned # Null <=> called.value.n < called.v.min)
          [] OTHER -> TRUE

---------------------------------------------------------------------------
(* C19                                                                     *)

\* C19: max(bound), in both implementations, returns no error for null and
\* undefined; for a string it returns an error exactly when the length exceeds
\* bound, and for a number exactly when the value exceeds bound.
C19_MaxByKindInBoth ==
    (CalledValidator("max") \/ CalledValidator("maxLength")) =>
        CASE called.value \in {Null, Undefined} -> returned = Null
          [] called.value.t = "string" ->
                (returned # Null <=> Len(called.value.s) > called.v.max)
          [] called.value.t = "number" ->
                (returned # Null <=> called.value.n > called.v.max)
          [] OTHER -> TRUE

---------------------------------------------------------------------------
(* The registry asked which fields are required, between register calls.   *)

RegisterCalls_Required ==
    { RegisterCall("Person", Record(<<"FirstName">>, [FirstName |-> required(MsgFirstName)])),
      RegisterCall("Person",
          Record(<<"LastName">>, [LastName |-> RuleArray(<< MinValidator(1, Null) >>)])),
      RegisterCall("Person",
          Record(<<"LastName">>,
                 [LastName |-> RuleArray(<< required(DefaultRequiredMessage),
                                            MinValidator(1, Null) >>)])),
      RegisterCall("Person", Record(<<"Addresses">>, [Addresses |-> AtLeastOneAddress])),
      RegisterCall("Person", Record(<<"FirstName">>, [FirstName |-> RuleArray(<<>>)])),
      RegisterCall("PersonAddress",
          Record(<<"StreetAddress1", "StreetAddress2">>,
                 [StreetAddress1 |-> required("StreetAddress1 is required"),
                  StreetAddress2 |-> MaxValidator(2, Null)])) }

\* registry.getRequiredFieldsFor(klass)
GetRequiredFieldsFor(klass) ==
    /\ pc = "idle"
    /\ called' = [op |-> "getRequiredFieldsFor", klass |-> klass]
    /\ returned' = getRequiredFieldsFor(map, klass)
    /\ UNCHANGED <<map, registered, pc, model, originalModel, validationPath,
                    outcome, valid, inflight>>

Next_Required ==
    \/ \E call \in RegisterCalls_Required : Register(call)
    \/ \E klass \in Classes : GetRequiredFieldsFor(klass)

Spec_Required == Init /\ [][Next_Required]_vars

---------------------------------------------------------------------------
(* C20                                                                     *)

\* a step in which getRequiredFieldsFor is called (a register call adds to
\* `registered`)
AsksRequired == registered' = registered /\ called'.op = "getRequiredFieldsFor"

\* the entry is true exactly when some rule given for the field came from required()
RequiredGiven(klass, field) ==
    \E i \in 1..Len(GivenFor(klass, field, Len(registered))) :
        LET rule == GivenFor(klass, field, Len(registered))[i]
        IN  rule.tag = "FieldValidator" /\ rule.kind = "required"

\* an entry that was true in the answer before is true in this one
StaysTrue ==
    (called.op = "getRequiredFieldsFor" /\ called.klass = called'.klass) =>
        \A field \in FieldNames :
            Get(returned, field) = Bool(TRUE) => Get(returned', field) = Bool(TRUE)

\* C20 as stated: getRequiredFieldsFor(C) has an entry for exactly the fields of C
\* with at least one registered rule, true if and only if some rule of the field
\* was created by required(); it is empty for a never-registered class; an entry
\* once true stays true after further register calls.
C20_EntriesForFieldsWithARule ==
    [][AsksRequired =>
          /\ DOMAIN returned'.props =
                { field \in FieldNames :
                     Len(GivenFor(called'.klass, field, Len(registered))) > 0 }
          /\ \A field \in DOMAIN returned'.props :
                returned'.props[field] = Bool(RequiredGiven(called'.klass, field))
          /\ StaysTrue]_vars

\* C20, amended: getRequiredFieldsFor(C) has an entry for exactly the fields some
\* register call for C named, a field registered with an empty list included;
\* the entry is true if and only if some rule given for the field was created by
\* required(), and false otherwise; it is empty for a class never registered;
\* an entry once true stays true after further register calls.
C20_EntriesForNamedFields ==
    [][AsksRequired =>
          /\ DOMAIN returned'.props =
                { field \in FieldNames : NamedBy(called'.klass, field) }
          /\ \A field \in DOMAIN returned'.props :
                returned'.props[field] = Bool(RequiredGiven(called'.klass, field))
          /\ StaysTrue]_vars

\* after two register calls Person has FirstName required and Addresses, which has
\* only a function rule that checks for emptiness, not required
C20_Witness ==
    /\ Len(registered) = 2
    /\ called = [op |-> "getRequiredFieldsFor", klass |-> "Person"]
    /\ Get(returned, "FirstName") = Bool(TRUE)
    /\ Get(returned, "Addresses") = Bool(FALSE)

---------------------------------------------------------------------------
(* Invocations of validate in flight: a caller's call runs to its first    *)
(* await, other callers and register calls run while it is suspended, and  *)
(* the caller takes the settled promise.                                   *)

\* c: registry.validate(m, Ctx, original, vpath), up to its first await
Call(c, m, original, vpath) ==
    /\ inflight[c].status = "idle"
    /\ inflight' = [inflight EXCEPT ![c] = startValidate(map, m, Ctx, original, vpath)]
    /\ UNCHANGED <<map, registered, pc, model, originalModel, validationPath, outcome,
                    valid, called, returned>>

\* the promise the invocation of c awaits has settled
Resume(c) ==
    /\ inflight[c].status = "awaiting"
    /\ inflight' = [inflight EXCEPT ![c] = resumeValidate(inflight[c], map)]
    /\ UNCHANGED <<map, registered, pc, model, originalModel, validationPath, outcome,
                    valid, called, returned>>

\* c takes what its promise settled with
Collect(c) ==
    /\ inflight[c].status \in {"resolved", "rejected"}
    /\ inflight' = [inflight EXCEPT ![c] = NotCalled]
    /\ UNCHANGED <<map, registered, pc, model, originalModel, validationPath, outcome,
                    valid, called, returned>>

\* a register call made while no invocation is in flight
RegisterBefore(call) ==
    /\ \A c \in Callers : inflight[c].status = "idle"
    /\ Register(call)

\* (p) => new Promise(resolve => resolve(p.StreetAddress1 === "" ? "..." : null))
StreetResolvesLater ==
    ModelRule(FieldEquals("StreetAddress1", Str("")),
              Promise(Str("StreetAddress1 is required")), Promise(Null))

RegisterCalls_InFlight ==
    { RegisterCall("Person",
          Record(<<"LastName", "FirstName">>,
                 [LastName |-> ResolvesLater, FirstName |-> required(MsgFirstName)])),
      RegisterCall("Person",
          Record(<<"FirstName", "Addresses">>,
                 [FirstName |-> RuleArray(<< SeparateFields, ResolvesLater >>),
                  Addresses |-> AtLeastOneAddress])),
      RegisterCall("PersonAddress",
          Record(<<"StreetAddress1">>,
                 [StreetAddress1 |-> RuleArray(<< StreetResolvesLater,
                                                  required("StreetAddress1 is required") >>)])) }

Models_InFlight ==
    { PersonOf(Str(f), l, PersonAddress(s, "Test"), Arr(as), Null) :
        f \in {""}, l \in {Null}, s \in {""},
        as \in SeqsUpTo({ PersonAddress("", "Test") }, MaxArrayLen) }

Originals_InFlight ==
    { Undefined,
      PersonOf(Str("Test"), Null, PersonAddress("Test", "Test"),
               Arr(<< PersonAddress("Test", "Test") >>), Null) }

Next_InFlight ==
    \/ \E call \in RegisterCalls_InFlight : RegisterBefore(call)
    \/ \E c \in Callers, m \in Models_InFlight, original \in Originals_InFlight :
          Call(c, m, original, Null)
    \/ \E c \in Callers : Resume(c)
    \/ \E c \in Callers : Collect(c)

Spec_InFlight == Init /\ [][Next_InFlight]_vars

\* what the promise of a settled invocation gave: rejected, or resolved with a graph
SameSettlement(a, b) == a.threw = b.threw /\ (~a.threw => a.result = b.result)

Settled(c) == inflight[c].status \in {"resolved", "rejected"}

---------------------------------------------------------------------------
(* C21                                                                     *)

\* the value an activation was called with, read from the activation below it:
\* the nested object of the field it is at, or element k of the array there
PassedDown(caller) ==
    LET key == Schema[caller.m.cls][caller.j].key
    IN  [m |-> IF caller.at = "element" THEN ItemAt(Get(caller.m, key), caller.k)
               ELSE Get(caller.m, key),
         original |-> IF caller.at = "element"
                        THEN ElementOf(SliceOf(caller.original, key), caller.k)
                        ELSE SliceOf(caller.original, key)]

\* every activation of the invocation holds the part of the model and of the
\* original model it was called with, and the registry entry of its class
ReadsOnly(inv, reg) ==
    \A d \in 1..Len(inv.stack) :
        /\ inv.stack[d].m = IF d = 1 THEN inv.m ELSE PassedDown(inv.stack[d - 1]).m
        /\ inv.stack[d].original =
              IF d = 1 THEN inv.original ELSE PassedDown(inv.stack[d - 1]).original
        /\ ~isPrimitive(inv.stack[d].m) =>
              inv.stack[d].validators = getValidatorsFor(reg, inv.stack[d].m.cls)

\* C21: a step of a validate invocation, from its call to its settling, leaves
\* the registry's rule lists, the model and the original model as they were, at
\* every level of the recursion.
C21_ValidateOnlyReads ==
    [][\A c \in Callers :
          (inflight'[c] # inflight[c] /\ inflight'[c].status # "idle") =>
              /\ map' = map
              /\ inflight[c].status # "idle" =>
                    /\ inflight'[c].m = inflight[c].m
                    /\ inflight'[c].original = inflight[c].original
              /\ ReadsOnly(inflight'[c], map')]_vars

\* an invocation is suspended inside an element of Addresses after rules of the
\* Person and of the element have been merged
C21_Witness ==
    \E c \in Callers :
        /\ inflight[c].status = "awaiting"
        /\ Len(inflight[c].stack) = 2
        /\ inflight[c].stack[1].at = "element"
        /\ Len(inflight[c].stack[1].st.result.keys) > 0
        /\ inflight[c].stack[2].i > 1

---------------------------------------------------------------------------
(* C22: register calls made while an invocation is suspended.              *)

\* c: registry.validate(m, Ctx, original, vpath); the call is noted with the
\* registry it was made on
CallOnRegistry(c, m, original, vpath) ==
    /\ inflight[c].status = "idle"
    /\ inflight' = [inflight EXCEPT ![c] = startValidate(map, m, Ctx, original, vpath)]
    /\ called' = [op |-> "validate", caller |-> c, registry |-> map]
    /\ UNCHANGED <<map, registered, pc, model, originalModel, validationPath, outcome,
                    valid, returned>>

\* a register call for a class other than that of the model being validated,
\* made while the invocation is suspended; no activation is iterating the
\* entry of that class
RegisterDuring(call) ==
    /\ \E c \in Callers :
          /\ inflight[c].status = "awaiting"
          /\ inflight[c].m.cls # call.klass
          /\ \A d \in 1..Len(inflight[c].stack) :
                isPrimitive(inflight[c].stack[d].m) \/ inflight[c].stack[d].m.cls # call.klass
    /\ Register(call)

RegisterCalls_Late ==
    { RegisterCall("Person", Record(<<"LastName">>, [LastName |-> ResolvesLater])),
      RegisterCall("Person", Record(<<"Addresses">>, [Addresses |-> AtLeastOneAddress])),
      RegisterCall("PersonAddress",
          Record(<<"StreetAddress1">>,
                 [StreetAddress1 |-> required("StreetAddress1 is required")])),
      RegisterCall("PersonAddress",
          Record(<<"StreetAddress2">>,
                 [StreetAddress2 |-> required("StreetAddress2 is required")])) }

Models_Late ==
    { PersonOf(Str("Test"), l, a, Arr(as), Null) :
        l \in {Null, Str("TestLast")},
        a \in {PersonAddress("", "Test"), PersonAddress("Test", "Test")},
        as \in SeqsUpTo({ PersonAddress("", "") }, MaxArrayLen) }

Next_Late ==
    \/ \E call \in RegisterCalls_Late : RegisterBefore(call)
    \/ \E m \in Models_Late : CallOnRegistry("first", m, Undefined, Null)
    \/ Resume("first")
    \/ Collect("first")
    \/ \E call \in RegisterCalls_Late : RegisterDuring(call)

Spec_Late == Init /\ [][Next_Late]_vars

\* C22: a register call for another class made while an invocation is suspended
\* does not change what the invocation settles with: it settles as validate does
\* on the registry the call was made on.
C22_LateRegisterOfOtherClass ==
    \A c \in Callers :
        (Settled(c) /\ called.op = "validate" /\ called.caller = c) =>
            SameSettlement(inflight[c].outcome,
                           validate(called.registry, inflight[c].m, Ctx,
                                    inflight[c].original, inflight[c].vpath, "."))

---------------------------------------------------------------------------
(* C28                                                                     *)

\* C28: whatever the interleaving of two invocations at their awaits, each settles
\* as it does when it runs alone from call to return on the same registry.
C28_InterleavedAsAlone ==
    \A c \in Callers :
        Settled(c) =>
            /\ SameSettlement(inflight[c].outcome,
                              validate(map, inflight[c].m, Ctx, inflight[c].original,
                                       inflight[c].vpath, "."))
            /\ ~inflight[c].outcome.threw =>
                  inflight[c].outcome.log =
                      validate(map, inflight[c].m, Ctx, inflight[c].original,
                               inflight[c].vpath, ".").log

\* one invocation has resolved with errors while the other is suspended at an await
\* inside an element of Addresses
C28_Witness ==
    /\ inflight["first"].status = "resolved"
    /\ ~isValid(inflight["first"].outcome.result)
    /\ inflight["second"].status = "awaiting"
    /\ Len(inflight["second"].stack) = 2
    /\ inflight["second"].stack[1].at = "element"

---------------------------------------------------------------------------
(* Rules whose partial mapping reports null for every field it names, as   *)
(* the rule of the test "returning parent record to child array results in *)
(* no errors" does for a person that can be contacted.                     *)

\* (p) => p.Addresses.length > 0 ? { LastName: null, Addresses: null }
\*                               : { LastName: msg, Addresses: msg }
mustHaveContactMethodValidator ==
    ModelRule(IsEmpty("Addresses"),
              Record(<<"LastName", "Addresses">>,
                     [LastName |-> Str("Must have one contact method"),
                      Addresses |-> Str("Must have one contact method")]),
              Record(<<"LastName", "Addresses">>,
                     [LastName |-> Null, Addresses |-> Null]))

\* (a) => ({ StreetAddress2: null, StreetAddress1: null })
streetsAreFine ==
    ModelRule(Always,
              Record(<<"StreetAddress2", "StreetAddress1">>,
                     [StreetAddress2 |-> Null, StreetAddress1 |-> Null]),
              Null)

RegisterCalls_NullMapping ==
    { RegisterCall("Person",
          Record(<<"FirstName", "LastName", "Addresses">>,
                 [FirstName |-> mustHaveContactMethodValidator,
                  LastName |-> mustHaveContactMethodValidator,
                  Addresses |-> mustHaveContactMethodValidator])),
      RegisterCall("Person",
          Record(<<"Address", "NullableAddress">>,
                 [Address |-> mustHaveContactMethodValidator,
                  NullableAddress |-> mustHaveContactMethodValidator])),
      RegisterCall("Person",
          Record(<<"Addresses">>, [Addresses |-> mustHaveContactMethodValidator])),
      RegisterCall("PersonAddress",
          Record(<<"StreetAddress1">>, [StreetAddress1 |-> streetsAreFine])),
      RegisterCall("PersonAddress",
          Record(<<"StreetAddress2">>,
                 [StreetAddress2 |-> required("StreetAddress2 is required")])) }

Models_NullMapping ==
    { Person("Test", a, as, n) :
        a \in { PersonAddress("", "Test"), PersonAddress("", "") },
        as \in SeqsUpTo({ PersonAddress("Test", "Test") }, MaxArrayLen),
        n \in { Null, PersonAddress("", "Test") } }

Next_NullMapping ==
    \/ \E call \in RegisterCalls_NullMapping : Register(call)
    \/ \E m \in Models_NullMapping : Validate(m, Undefined, Null)
    \/ IsValid
    \/ Return

Spec_NullMapping == Init /\ [][Next_NullMapping]_vars

\* a partial mapping whose every entry is null
AllNullMapping(res) ==
    /\ isRecord(res)
    /\ \A k \in DOMAIN res.props : res.props[k] = Null

\* no rule invocation of the settled call reported anything but null or a mapping
\* of nulls, and no decoder reported a mismatch
NothingReported ==
    \A n \in 1..Len(outcome.log) :
        /\ outcome.log[n].ev # "decode"
        /\ outcome.log[n].ev = "rule" =>
              \/ outcome.log[n].res = Null
              \/ AllNullMapping(outcome.log[n].res)

(* C23: a rule whose partial mapping is null for every field it names adds *)
(* no error to the result, whichever field it is registered under, array   *)
(* fields included: when nothing else reports an error, validate resolves  *)
(* with a result that holds no message and isValid of it is true.          *)
C23_AllNullMappingAddsNoError ==
    (pc = "settled" /\ NothingReported) =>
        /\ ~outcome.threw
        /\ isValid(outcome.result)
        /\ valid \in {Undefined, Bool(TRUE)}
        /\ AllMessages(outcome.result) = {}

\* a rule registered under the array field Addresses has returned a mapping of
\* nulls that names Addresses itself, and isValid has returned true
C23_Witness ==
    /\ pc = "settled"
    /\ NothingReported
    /\ valid = Bool(TRUE)
    /\ \E n \in 1..Len(outcome.log) :
          /\ outcome.log[n].ev = "rule"
          /\ outcome.log[n].key = "Addresses"
          /\ AllNullMapping(outcome.log[n].res)
          /\ HasOwn(outcome.log[n].res, "Addresses")
---------------------------------------------------------------------------
(* The order of the steps of one invocation, read from its trace: the      *)
(* invocations of rules ("invoke"), the merges of their settled results    *)
(* ("merge") and the starts of the schema's fields ("schema").             *)

\* the number of rules of the first n fields of a registry entry that the scope admits
RECURSIVE rulesInScope(_, _, _, _)
rulesInScope(validators, path, vpath, n) ==
    IF n = 0 THEN 0
    ELSE rulesInScope(validators, path, vpath, n - 1)
         + IF isInValidationPath(path \o validators.keys[n], vpath)
             THEN Len(validators.props[validators.keys[n]])
             ELSE 0

\* the positions of the trace that hold an event of the kind for the object at path
EventsAt(t, ev, path) == { n \in 1..Len(t) : t[n].ev = ev /\ t[n].path = path }

\* every invocation of a rule is directly followed by the merge of its result;
\* only the last one may still be awaited
MergedBeforeNext(inv) ==
    LET t == inv.trace
    IN  \A n \in 1..Len(t) :
           /\ t[n].ev = "invoke" =>
                 IF n = Len(t)
                   THEN /\ inv.status = "awaiting"
                        /\ Top(inv).at = "rules"
                        /\ Top(inv).awaited # Undefined
                   ELSE t[n + 1] = [t[n] EXCEPT !.ev = "merge"]
           /\ t[n].ev = "merge" => n > 1 /\ t[n - 1] = [t[n] EXCEPT !.ev = "invoke"]

\* the rules of a field are invoked in their order, and no rule of a field is
\* invoked once a rule of a later field of the same object has been
FieldByField(inv) ==
    LET t == inv.trace
    IN  \A b \in 1..Len(t) : t[b].ev = "invoke" =>
           /\ t[b].i > 0 =>
                 \E a \in 1..(b - 1) : t[a] = [t[b] EXCEPT !.ev = "merge", !.i = @ - 1]
           /\ \A a \in 1..(b - 1) :
                 (t[a].ev = "invoke" /\ t[a].path = t[b].path) =>
                    IF t[a].key = t[b].key
                      THEN t[a].i < t[b].i
                      ELSE \A x \in 1..(a - 1) :
                              ~(t[x].ev = "invoke" /\ t[x].path = t[b].path
                                /\ t[x].key = t[b].key)

\* once a field of the schema of an object has been started no rule of that object
\* is invoked or merged, and every rule the scope admits has been merged by then
SchemaAfterRules(inv) ==
    LET t == inv.trace
    IN  /\ \A a \in 1..Len(t) : t[a].ev = "schema" =>
              \A b \in (a + 1)..Len(t) : t[b].path = t[a].path => t[b].ev = "schema"
        /\ \A d \in 1..Len(inv.stack) :
              LET f == inv.stack[d]
                  all == rulesInScope(f.validators, f.path, inv.vpath,
                                      Len(f.validators.keys))
              IN  /\ Cardinality(EventsAt(t, "merge", f.path)) <= all
                  /\ (f.at # "rules" /\ ~f.st.threw) =>
                        Cardinality(EventsAt(t, "merge", f.path)) = all
                  /\ f.at = "rules" => EventsAt(t, "schema", f.path) = {}

(* C24: within one invocation of validate, rule k+1 of a field is not      *)
(* invoked before the result of rule k has settled and has been merged,    *)
(* the rules of the next field are not invoked before all rules of the     *)
(* current field have been merged, and the schema phase of an object       *)
(* starts only after every rule of that object in scope has been merged.   *)
C24_RulesMergedInOrder ==
    \A c \in Callers : inflight[c].status \in {"awaiting", "resolved"} =>
        /\ MergedBeforeNext(inflight[c])
        /\ FieldByField(inflight[c])
        /\ SchemaAfterRules(inflight[c])

\* an invocation awaits the promise of the first rule of a nested object's field:
\* before that the second rule of a field of the root, itself asynchronous, was
\* merged and the schema phase of the root was started
C24_Witness ==
    /\ inflight["first"].status = "awaiting"
    /\ Len(inflight["first"].stack) = 2
    /\ Top(inflight["first"]).at = "rules"
    /\ inflight["first"].trace[Len(inflight["first"].trace)].ev = "invoke"
    /\ \E n \in DOMAIN inflight["first"].trace :
          inflight["first"].trace[n] = [ev |-> "merge", path |-> ".", key |-> "FirstName", i |-> 1]
    /\ EventsAt(inflight["first"].trace, "schema", ".") # {}
---------------------------------------------------------------------------
(* Partial mappings whose values are not strings or null: a mapping for a  *)
(* nested object, a promise, and the mapping with no keys.                 *)

\* (p) => p.FirstName === "" ? { Address: { StreetAddress1: "Street needs a FirstName" } }
\*                           : null
MapsIntoAddress ==
    ModelRule(FieldEquals("FirstName", Str("")),
              Record(<<"Address">>,
                     [Address |-> Record(<<"StreetAddress1">>,
                                         [StreetAddress1 |-> Str("Street needs a FirstName")])]),
              Null)
\* (p) => ({})
ReturnsEmptyMapping == ModelRule(Always, Record(<<>>, NoProps), Null)
\* (p) => ({ LastName: Promise.resolve(null) })
MapsToPromise ==
    ModelRule(Always, Record(<<"LastName">>, [LastName |-> Promise(Null)]), Null)

RegisterCalls_Mappings ==
    { RegisterCall("Person", Record(<<"FirstName">>, [FirstName |-> MapsIntoAddress])),
      RegisterCall("Person", Record(<<"Address">>, [Address |-> MapsIntoAddress])),
      RegisterCall("Person", Record(<<"FirstName">>, [FirstName |-> ReturnsEmptyMapping])),
      RegisterCall("Person", Record(<<"Addresses">>, [Addresses |-> ReturnsEmptyMapping])),
      RegisterCall("Person", Record(<<"FirstName">>, [FirstName |-> MapsToPromise])),
      RegisterCall("Person",
          Record(<<"LastName", "FirstName">>,
                 [LastName |-> ResolvesLater, FirstName |-> SeparateFields])),
      RegisterCall("PersonAddress",
          Record(<<"StreetAddress1">>,
                 [StreetAddress1 |-> required("StreetAddress1 is required")])) }

Models_Mappings ==
    { Person(f, a, as, Null) :
        f \in {"", "Test"}, a \in AddressValues,
        as \in SeqsUpTo({ PersonAddress("Test", "Test") }, MaxArrayLen) }

Next_Mappings ==
    \/ \E call \in RegisterCalls_Mappings : Register(call)
    \/ \E m \in Models_Mappings : Validate(m, Undefined, Null)
    \/ IsValid
    \/ Return

Spec_Mappings == Init /\ [][Next_Mappings]_vars

\* the list holds the message
ListHolds(list, msg) == IsArray(list) /\ \E i \in 1..Len(list.items) : list.items[i] = msg

\* rule invocation n of the settled call ran on the root and returned a mapping
\* whose value for the nested-object field N is the mapping { s: msg }
MapsInto(n, N, s) ==
    /\ outcome.log[n].ev = "rule"
    /\ outcome.log[n].path = "."
    /\ isRecord(outcome.log[n].res)
    /\ HasOwn(outcome.log[n].res, N)
    /\ isTypedRecord(Get(model, N))
    /\ isRecord(Get(outcome.log[n].res, N))
    /\ HasOwn(Get(outcome.log[n].res, N), s)
    /\ Get(Get(outcome.log[n].res, N), s).t = "string"

(* C25 as claimed: when a rule returns a partial mapping whose value for a *)
(* nested-object field N is itself a mapping { s: msg }, msg is in the     *)
(* list of sub-field s inside N's node of the result (result.N.s), and is  *)
(* not put under a field named s of the object the rule was run on.        *)
C25_NestedMappingReachesSubNode ==
    (pc = "settled" /\ ~outcome.threw) =>
        \A n \in 1..Len(outcome.log), N \in {"Address", "NullableAddress"},
           s \in {"StreetAddress1", "StreetAddress2"} :
            MapsInto(n, N, s) =>
                /\ ListHolds(Get(Get(outcome.result, N), s),
                             Get(Get(outcome.log[n].res, N), s))
                /\ ~HasOwn(outcome.result, s)

\* every entry of every error list of the node, and of the nodes below it, is a string
RECURSIVE OnlyStrings(_)
OnlyStrings(node) ==
    /\ IsArray(node) =>
          IF HasOwn(node, "errors")
            THEN /\ \A i \in 1..Len(Get(node, "errors").items) :
                        Get(node, "errors").items[i].t = "string"
                 /\ \A i \in 1..Len(node.items) :
                        IsObjectLike(node.items[i]) => OnlyStrings(node.items[i])
            ELSE \A i \in 1..Len(node.items) : node.items[i].t = "string"
    /\ \A k \in DOMAIN node.props \ {"errors"} :
          IsObjectLike(node.props[k]) => OnlyStrings(node.props[k])

(* C26 as claimed: in every result graph validate resolves with, every     *)
(* entry of every field error list and of every `errors` list of an array  *)
(* is a string, whatever the rules return: null, a mapping without an      *)
(* error (the mapping with no keys included) or an asynchronous value,     *)
(* returned directly or as a value inside a partial mapping.               *)
C26_ListsHoldOnlyStrings ==
    (pc = "settled" /\ ~outcome.threw) => OnlyStrings(outcome.result)
---------------------------------------------------------------------------
(* The older variant of the engine (src/src/index.ts): how the rule loop   *)
(* of validate merges the result of one rule into the result of the        *)
(* object.  Its add does not look at the model; its addToArray handles     *)
(* the rule's own key in a mapping itself.                                 *)

\* the most rule results merged into the result of one object
MaxMerges == 2

RECURSIVE add_older(_, _, _)
RECURSIVE addKeys_older(_, _, _)
RECURSIVE addToArray_older(_, _, _, _)
RECURSIVE addToArrayKeys_older(_, _, _, _, _)

\* src/src/index.ts lines 206-221; the list is written as in lines 215-220 of it
add_older(st, key, res) ==
    IF st.threw THEN st
    ELSE IF isRecord(res) THEN addKeys_older(st, res, 1)
    ELSE addToList(st, key, res)

\* src/src/index.ts lines 209-211: for(var k in r) add(k, r[k])
addKeys_older(st, r, i) ==
    IF i > Len(r.keys) \/ st.threw THEN st
    ELSE addKeys_older(add_older(st, r.keys[i], r.props[r.keys[i]]), r, i + 1)

\* src/src/index.ts lines 227-239: whatever res is, a mapping included, it is
\* pushed into `errors` unless it is null or an element of the array node
innerAdd_older(st, key, res) ==
    LET existing == Get(st.result, key)
        current0 == IF Truthy(existing) THEN existing ELSE EmptyArray
        current == IF ~Truthy(Get(current0, "errors"))
                     THEN Set(current0, "errors", EmptyArray)
                     ELSE current0
    IN  IF res # Null
          THEN IF ~IsArray(current) THEN Thrown(st)
               ELSE IF indexOf(current, res) = -1
                      THEN SetResult(st, key,
                               Set(current, "errors", Push(Get(current, "errors"), res)))
                      ELSE SetResult(st, key, current)
          ELSE SetResult(st, key, current)

\* src/src/index.ts lines 223-259
addToArray_older(m, st, key, res) ==
    IF st.threw THEN st
    ELSE IF res = Null THEN st
    ELSE IF isRecord(res) THEN addToArrayKeys_older(m, st, key, res, 1)
    ELSE innerAdd_older(st, key, res)

\* src/src/index.ts lines 243-255: the loop over the keys of the mapping r
addToArrayKeys_older(m, st, key, r, i) ==
    IF i > Len(r.keys) \/ st.threw THEN st
    ELSE LET k == r.keys[i]
         IN  IF k = key THEN innerAdd_older(st, key, r)
             ELSE addToArrayKeys_older(
                      m,
                      add_older(IF IsArray(Get(m, k))
                                  THEN addToArray_older(m, st, k, r.props[k])
                                  ELSE st,
                                k, r.props[k]),
                      key, r, i + 1)

\* src/src/index.ts lines 277-285: where the rule loop sends the result of a rule
mergeRuleResult_older(m, st, key, res) ==
    IF IsArray(Get(m, key)) THEN addToArray_older(m, st, key, res)
    ELSE IF isPrimitive(Get(m, key)) THEN add_older(st, key, res)
    ELSE IF isTypedRecord(res) \/ isRecord(res) THEN add_older(st, key, res)
    ELSE st

\* the rule loop of validate has been entered for the object m
EnterRules_older(m) ==
    /\ pc = "idle"
    /\ pc' = "rules"
    /\ model' = m
    /\ outcome' = Fresh
    /\ called' = NoCall
    /\ UNCHANGED <<map, registered, originalModel, validationPath, valid, returned,
                    inflight>>

\* a rule registered under key has given res, and the rule loop has merged it;
\* `returned` keeps the result of the object as it was before
Merge_older(key, res) ==
    /\ pc = "rules"
    /\ Len(outcome.log) < MaxMerges
    /\ ~outcome.threw
    /\ called' = [op |-> "merge", key |-> key, res |-> res]
    /\ returned' = outcome.result
    /\ outcome' = mergeRuleResult_older(
                      model, Logged(outcome, RuleEvent(".", key, 0, res, Undefined)),
                      key, res)
    /\ UNCHANGED <<map, registered, pc, model, originalModel, validationPath, valid,
                    inflight>>

\* the rule loop is left
LeaveRules_older ==
    /\ pc = "rules"
    /\ pc' = "idle"
    /\ model' = Undefined
    /\ outcome' = NoOutcome
    /\ called' = NoCall
    /\ returned' = Undefined
    /\ UNCHANGED <<map, registered, originalModel, validationPath, valid, inflight>>

Models_Older ==
    { Person(f, PersonAddress("Test", "Test"), as, Null) :
        f \in {"", "Test"},
        as \in SeqsUpTo({ PersonAddress("Test", "Test") }, MaxArrayLen) }

\* what a rule gives: null, a message, and mappings that name Addresses first,
\* last or not at all, with messages or with nulls
RuleResults_Older ==
    { Null, Str(MsgAddresses),
      Record(<<"LastName", "Addresses">>,
             [LastName |-> Str("Separate field error"), Addresses |-> Str(MsgAddresses)]),
      Record(<<"Addresses", "LastName">>,
             [LastName |-> Str("Separate field error"), Addresses |-> Str(MsgAddresses)]),
      Record(<<"LastName", "Addresses">>, [LastName |-> Null, Addresses |-> Null]),
      Record(<<"LastName">>, [LastName |-> Str("Separate field error")]) }

Next_Older ==
    \/ \E m \in Models_Older : EnterRules_older(m)
    \/ \E key \in {"Addresses", "FirstName"}, res \in RuleResults_Older :
          Merge_older(key, res)
    \/ LeaveRules_older

Spec_Older == Init /\ [][Next_Older]_vars

\* the entries of the `errors` list of the node of field F, none without the list
errorsOf(result, F) ==
    IF HasOwn(Get(result, F), "errors") THEN Get(Get(result, F), "errors").items ELSE <<>>

\* the rule loop has just merged, for a rule registered under the array field F,
\* a mapping that holds the key F
MergedOwnArrayKey(F) ==
    /\ pc = "rules"
    /\ called # NoCall
    /\ called.key = F
    /\ IsArray(Get(model, F))
    /\ isRecord(called.res)
    /\ HasOwn(called.res, F)

(* C27 as claimed: in the older variant, when a rule registered under the  *)
(* array field F returns a partial mapping that holds the key F, what is   *)
(* added to the `errors` list of F is the message string given for F, and  *)
(* nothing when that value is null; the other keys of the mapping are      *)
(* still merged into their own fields.                                     *)
C27_OwnArrayKeyAddsItsMessage ==
    MergedOwnArrayKey("Addresses") =>
        LET msg == Get(called.res, "Addresses")
            before == errorsOf(returned, "Addresses")
        IN  /\ ~outcome.threw
            /\ errorsOf(outcome.result, "Addresses") =
                  IF msg = Null \/ \E i \in 1..Len(before) : before[i] = msg
                    THEN before
                    ELSE Append(before, msg)
            /\ \A k \in DOMAIN called.res.props \ {"Addresses"} :
                  called.res.props[k] # Null =>
                      ListHolds(Get(outcome.result, k), called.res.props[k])
---------------------------------------------------------------------------
(* A scope that is the path of a field holding a nested object.            *)

ValidationPaths_Nested ==
    { Str(".Address"), Str(".NullableAddress"), Str(".Address.StreetAddress1") }

Next_Nested ==
    \/ \E call \in RegisterCalls : Register(call)
    \/ \E m \in Models, vpath \in ValidationPaths_Nested : Validate(m, Undefined, vpath)
    \/ Return

Spec_Nested == Init /\ [][Next_Nested]_vars

\* the settled call logged the invocation of rule i of the field at the path
RuleRan(path, key, i) ==
    \E n \in 1..Len(outcome.log) :
        /\ outcome.log[n].ev = "rule"
        /\ outcome.log[n].path = path
        /\ outcome.log[n].key = key
        /\ outcome.log[n].i = i

\* the rules registered on field N of the class of the settled call's model
RulesOn(N) ==
    LET validators == getValidatorsFor(map, model.cls)
    IN  IF N \in DOMAIN validators.props THEN validators.props[N] ELSE <<>>

\* the settled call had the path of the field N, which holds a nested object, as scope
ScopedTo(N) ==
    /\ pc = "settled"
    /\ validationPath = Str("." \o N)
    /\ isTypedRecord(Get(model, N))

(* C29: when the scope is the path of a nested typed-object field itself,  *)
(* as `.Address`, the rules registered on that field are run, but no rule  *)
(* and no schema check of a sub-field of the nested object is evaluated,   *)
(* no sub-field path being a prefix of the scope: the nested object        *)
(* contributes an empty node.                                              *)
C29_ScopeOnNestedFieldStopsThere ==
    \A N \in {"Address", "NullableAddress"} :
        ScopedTo(N) =>
            /\ ~outcome.threw
            /\ \A i \in 1..Len(RulesOn(N)) : RuleRan(".", N, i - 1)
            /\ \E n \in 1..Len(outcome.log) :
                  outcome.log[n] = SchemaEvent(".", N)
            /\ \A n \in 1..Len(outcome.log) : outcome.log[n].path = "."
            /\ HasOwn(outcome.result, N)
            /\ Get(outcome.result, N).keys = <<>>
            /\ RulesOn(N) = <<>> => Get(outcome.result, N) = EmptyObject

\* validate has settled for the scope `.Address` on a person whose address lacks
\* StreetAddress1, with a rule registered on Address and the rule that requires
\* StreetAddress1 registered on PersonAddress
C29_Witness ==
    /\ ScopedTo("Address")
    /\ Get(Get(model, "Address"), "StreetAddress1") = Str("")
    /\ RulesOn("Address") # <<>>
    /\ RuleRan(".", "Address", 0)
    /\ "StreetAddress1" \in DOMAIN getValidatorsFor(map, "PersonAddress").props
---------------------------------------------------------------------------
(* Termination.  Every promise an invocation awaits settles, and the event *)
(* loop then runs the invocation's continuation: Resume is weakly fair.    *)

Next_Terminates ==
    \/ \E call \in RegisterCalls_InFlight : RegisterBefore(call)
    \/ \E m \in Models_InFlight, original \in Originals_InFlight :
          Call("first", m, original, Null)
    \/ Resume("first")
    \/ Collect("first")

Spec_Terminates == Init /\ [][Next_Terminates]_vars /\ WF_vars(Resume("first"))

\* the number of objects on the longest chain of objects nested in one another
RECURSIVE nestingDepth(_)
Highest(S) == IF S = {} THEN 0 ELSE CHOOSE x \in S : \A y \in S : y <= x
nestingDepth(v) ==
    IF isPrimitive(v) THEN 0
    ELSE IF IsArray(v) THEN Highest({ nestingDepth(v.items[i]) : i \in 1..Len(v.items) })
    ELSE 1 + Highest({ nestingDepth(v.props[k]) : k \in DOMAIN v.props })

\* the object of the model that the path leads to: `.` is the model itself
ObjectAt(m, path) ==
    IF path = "." THEN m
    ELSE IF path = ".Address." THEN Get(m, "Address")
    ELSE IF path = ".NullableAddress." THEN Get(m, "NullableAddress")
    ELSE ItemAt(Get(m, "Addresses"),
                CHOOSE k \in 0..MaxArrayLen : path = ".Addresses[" \o ToString(k) \o "].")

\* the activations of an invocation in flight are nested no deeper than the model
DepthBounded(inv) ==
    /\ Len(inv.stack) <= nestingDepth(inv.m)
    /\ \A d \in 1..Len(inv.stack) : inv.stack[d].m = ObjectAt(inv.m, inv.stack[d].path)

\* no rule of an object was invoked twice and no field of its schema entered twice
EachOnce(inv) ==
    \A a, b \in 1..Len(inv.trace) : inv.trace[a] = inv.trace[b] => a = b

\* the resolved invocation has invoked every rule registered for the class of the
\* model and of each object nested in it, elements of Addresses included
AllVisited(inv) ==
    /\ \A n \in 1..Len(getValidatorsFor(map, "Person").keys) :
          LET key == getValidatorsFor(map, "Person").keys[n]
          IN  \A i \in 1..Len(getValidatorsFor(map, "Person").props[key]) :
                 [ev |-> "invoke", path |-> ".", key |-> key, i |-> i - 1]
                     \in { inv.trace[x] : x \in 1..Len(inv.trace) }
    /\ \A path \in { ".Address." } \cup
                   { ".Addresses[" \o ToString(k - 1) \o "]." :
                        k \in 1..Len(Get(inv.m, "Addresses").items) } :
          \A n \in 1..Len(getValidatorsFor(map, "PersonAddress").keys) :
             LET key == getValidatorsFor(map, "PersonAddress").keys[n]
             IN  \A i \in 1..Len(getValidatorsFor(map, "PersonAddress").props[key]) :
                    [ev |-> "invoke", path |-> path, key |-> key, i |-> i - 1]
                        \in { inv.trace[x] : x \in 1..Len(inv.trace) }
    /\ \A path \in { ".Address." } \cup
                   { ".Addresses[" \o ToString(k - 1) \o "]." :
                        k \in 1..Len(Get(inv.m, "Addresses").items) } :
          EventsAt(inv.trace, "schema", path) # {}

\* what holds of the invocation of the caller at every moment
VisitsOnce ==
    /\ inflight["first"].status \in {"awaiting", "resolved"} =>
          /\ EachOnce(inflight["first"])
          /\ DepthBounded(inflight["first"])
    /\ inflight["first"].status = "resolved" => AllVisited(inflight["first"])
    /\ inflight["first"].status # "rejected"

(* C30: for a finite model and rules that all settle, the promise validate *)
(* returns eventually settles: an invocation suspended at an await gets to *)
(* the end.  On the way each registered rule of each visited object is     *)
(* invoked once, each nested object and each array element is visited      *)
(* once, and the activations are nested no deeper than the model is.       *)
C30_ValidateSettles ==
    /\ []VisitsOnce
    /\ (inflight["first"].status = "awaiting") ~> Settled("first")

\* the invocation has resolved after visiting both elements of Addresses, in each
\* of which it awaited a rule
C30_Witness ==
    /\ inflight["first"].status = "resolved"
    /\ Len(Get(inflight["first"].m, "Addresses").items) = MaxArrayLen
    /\ EventsAt(inflight["first"].trace, "merge",
                ".Addresses[" \o ToString(MaxArrayLen - 1) \o "].") # {}
    /\ EventsAt(inflight["first"].trace, "merge", ".") # {}
=============================================================================
